---- MODULE Spec2Model ----
(***************************************************************************)
(* A model of init2winit's per-host trainer                                *)
(* (init2winit/trainer_lib/trainer_per_host.py): the evaluation            *)
(* aggregation (evaluate, eval_metrics, gather_multihost_report), the      *)
(* device groups of the collectives (_get_axis_index_groups) and the       *)
(* train() generator (step counting, evaluation cadence, checkpoints,      *)
(* early stopping, resumption).                                            *)
(*                                                                         *)
(* Python values are modelled as follows.                                  *)
(*   dict            a function from string keys to values                 *)
(*   None            the string "None"                                     *)
(*   float metric    a natural number, or NaN                              *)
(*   PRNG key        the sequence of the split/fold_in operations that     *)
(*                   produced it from the rng argument                     *)
(*   exception       a result record [kind |-> "raise", error |-> name]    *)
(***************************************************************************)
EXTENDS Integers, Sequences, FiniteSets, TLC

VARIABLES
  \* ---- train(): arguments and configuration (fixed by Init)
  args,
  \* ---- train(): local variables of the generator
  pc, global_step, start_step, prev_eval_step, sum_train_cost,
  preemption_count, is_restored, data_rng, dataset_seed, train_iter,
  lr, grad_norm, params, optimizer_state, current_expert,
  checkpointed_expert, report,
  \* ---- train(): what the generator did (observation history)
  report_log, saves, pending_save, wait_calls, step_log, eval_log,
  eval_input, error, batch_stats, eval_stats,
  \* ---- evaluate / eval_metrics called on their own
  ev_dataset, ev_result, ev_pc,
  \* ---- gather_multihost_report called on its own
  gm_reports, gm_expert, gm_result, gm_pc,
  \* ---- _get_axis_index_groups called on its own
  ax_num_d, ax_num_p, ax_groups, ax_values, ax_mean, ax_pc,
  \* ---- _inject_learning_rate called on its own
  inj_state, inj_lr, inj_result, inj_pc,
  \* ---- update called on its own
  up_args, up_result, up_pc,
  \* ---- a TrainingMetricsGrabber
  tg_config, tg_created, tg_grabber, tg_params, tg_history, tg_restored,
  tg_pc,
  \* ---- _optimizer_loop of test_transform.py
  hb_hps, hb_params, hb_opt_state, hb_results, hb_states, hb_pc,
  \* ---- init of a gradient transformation called on its own
  tx_call, tx_state, tx_pc,
  \* ---- get_optimizer called on its own
  go_hps, go_model, go_result, go_pc,
  \* ---- scale_by_adam run in two configurations on one gradient sequence
  ad_hps, ad_grads, ad_decay_state, ad_debias_state, ad_decay_updates,
  ad_debias_updates, ad_pc,
  \* ---- scale_by_amsgrad and the amsgrad() of its test on one sequence
  am_grads, am_state, am_true_state, am_updates, am_true_updates, am_pc

train_vars ==
  << args, pc, global_step, start_step, prev_eval_step, sum_train_cost,
     preemption_count, is_restored, data_rng, dataset_seed, train_iter,
     lr, grad_norm, params, optimizer_state, current_expert,
     checkpointed_expert, report, report_log, saves, pending_save, wait_calls, step_log, eval_log,
     eval_input, error, batch_stats, eval_stats >>
ev_vars == << ev_dataset, ev_result, ev_pc >>
gm_vars == << gm_reports, gm_expert, gm_result, gm_pc >>
ax_vars == << ax_num_d, ax_num_p, ax_groups, ax_values, ax_mean, ax_pc >>
inj_vars == << inj_state, inj_lr, inj_result, inj_pc >>
up_vars == << up_args, up_result, up_pc >>
tg_vars ==
  << tg_config, tg_created, tg_grabber, tg_params, tg_history, tg_restored,
     tg_pc >>
lib_vars == << inj_vars, up_vars, tg_vars >>
hb_vars ==
  << hb_hps, hb_params, hb_opt_state, hb_results, hb_states, hb_pc >>
tx_vars == << tx_call, tx_state, tx_pc >>
go_vars == << go_hps, go_model, go_result, go_pc >>
ad_vars ==
  << ad_hps, ad_grads, ad_decay_state, ad_debias_state, ad_decay_updates,
     ad_debias_updates, ad_pc >>
am_vars ==
  << am_grads, am_state, am_true_state, am_updates, am_true_updates, am_pc >>
opt_vars == << hb_vars, tx_vars, go_vars, ad_vars, am_vars >>
vars == << train_vars, ev_vars, gm_vars, ax_vars, lib_vars, opt_vars >>

(***************************************************************************)
(* Bounds of the model.                                                    *)
(***************************************************************************)
MaxTrainSteps == 3      \* num_train_steps ranges over 0..MaxTrainSteps
MaxEvalFrequency == 2   \* eval_frequency ranges over 1..MaxEvalFrequency
MaxBatches == 2         \* batches per evaluation split
MaxMetric == 1          \* per-batch metric values range over 0..MaxMetric
MaxHosts == 4           \* jax.process_count() ranges over 1..MaxHosts
MaxDevices == 4         \* jax.local_device_count() ranges over 1..MaxDevices
MaxReportHosts == 3     \* hosts of a gather_multihost_report call
MaxNesting == 2         \* GradientAccumulatorState wrappers around a state
MaxGradClip == 6        \* hps.grad_clip ranges over None and 0..MaxGradClip
MaxUpdates == 3         \* update calls on a TrainingMetricsGrabber
MaxDecayTenths == 9     \* the decay of polyak_hb ranges over 0/10..MaxDecayTenths/10
MaxDim == 3             \* the axes of a params array have 1..MaxDim elements
MaxAmsgradSteps == 3    \* updates of scale_by_amsgrad in a run

(***************************************************************************)
(* Values.                                                                 *)
(***************************************************************************)
None == "None"
NaN == -1
EmptyDict == [k \in {} |-> 0]
Max(a, b) == IF a >= b THEN a ELSE b

\* np.isnan(val)
isnan(val) == val = NaN

\* clu.metrics merge of a sum-like metric; NaN is absorbing as in IEEE 754.
MetricMerge(a, b) == IF isnan(a) \/ isnan(b) THEN NaN ELSE a + b

\* metrics.merge(computed_metrics): key by key.
CollectionMerge(metrics, computed_metrics) ==
  [key \in DOMAIN metrics |-> MetricMerge(metrics[key], computed_metrics[key])]

\* metrics.compute(): the reduced scalar of every metric of the collection.
CollectionCompute(metrics) == [key \in DOMAIN metrics |-> metrics[key]]

(***************************************************************************)
(* evaluate(params, batch_stats, batch_iter, evaluate_batch_pmapped).      *)
(* batch_iter is the sequence of the collections evaluate_batch_pmapped    *)
(* returns for its batches.                                                *)
(***************************************************************************)
\* An optional dict (a variable that holds None or a dict): << >> is None and
\* << d >> is the dict d.
NoDict == << >>
Some(d) == << d >>
IsNone(opt) == opt = << >>
TheDict(opt) == opt[1]

RECURSIVE evaluate_loop(_, _)
evaluate_loop(metrics, batch_iter) ==
  IF batch_iter = << >> THEN metrics
  ELSE evaluate_loop(
         IF IsNone(metrics) THEN Some(Head(batch_iter))
         ELSE Some(CollectionMerge(TheDict(metrics), Head(batch_iter))),
         Tail(batch_iter))

\* Mutant: the NaN test is missing.
evaluate_raises_Never(metrics) == FALSE

\* `for key, val in metrics.items(): if np.isnan(val): raise ...`
evaluate_raises(metrics) == \E key \in DOMAIN metrics : isnan(metrics[key])

\* The result of a call: [kind |-> "return", value |-> v] or
\* [kind |-> "raise", error |-> name].
evaluate(batch_iter) ==
  LET metrics == evaluate_loop(NoDict, batch_iter) IN
  IF ~IsNone(metrics)
  THEN LET computed == CollectionCompute(TheDict(metrics)) IN
       IF evaluate_raises(computed)
       THEN [kind |-> "raise", error |-> "TrainingDivergedError"]
       ELSE [kind |-> "return", value |-> Some(computed)]
  ELSE [kind |-> "return", value |-> NoDict]

\* Mutant: d1 is not carried over.
_merge_and_apply_prefix_NoCopy(d1, d2, prefix) ==
  [k \in {prefix \o key : key \in DOMAIN d2} |->
     d2[CHOOSE key \in DOMAIN d2 : prefix \o key = k]]

\* _merge_and_apply_prefix(d1, d2, prefix)
_merge_and_apply_prefix(d1, d2, prefix) ==
  LET new == {prefix \o key : key \in DOMAIN d2} IN
  [k \in DOMAIN d1 \cup new |->
     IF k \in new
     THEN d2[CHOOSE key \in DOMAIN d2 : prefix \o key = k]
     ELSE d1[k]]

SplitNames == << "train", "valid", "test" >>

\* eval_metrics: dataset maps each split name to its batch_iter.
RECURSIVE eval_metrics_loop(_, _, _)
eval_metrics_loop(metrics, dataset, i) ==
  IF i > Len(SplitNames) THEN [kind |-> "return", value |-> metrics]
  ELSE LET split_name == SplitNames[i]
           split_metrics == evaluate(dataset[split_name])
       IN IF split_metrics.kind = "raise" THEN split_metrics
          ELSE eval_metrics_loop(
                 IF ~IsNone(split_metrics.value)
                 THEN _merge_and_apply_prefix(metrics,
                                              TheDict(split_metrics.value),
                                              split_name \o "/")
                 ELSE metrics,
                 dataset, i + 1)

eval_metrics(dataset) == eval_metrics_loop(EmptyDict, dataset, 1)

(***************************************************************************)
(* gather_multihost_report(report, current_expert); `expert` below is its  *)
(* current_expert argument.                                                *)
(* host_reports[i] is the report of host process i (the argument `report`  *)
(* of the call made by that host); all hosts call with the same keys.      *)
(***************************************************************************)
\* f'{metric}-{i}'
HostKey(metric, i) == metric \o "-" \o ToString(i)

\* multihost_utils.process_allgather(report): for every key the array of the
\* hosts' values, indexed by host.
process_allgather(host_reports) ==
  [metric \in DOMAIN host_reports[0] |->
     [i \in DOMAIN host_reports |-> host_reports[i][metric]]]

\* all_reports.update(metric_reports)
DictUpdate(d, upd) ==
  [k \in DOMAIN d \cup DOMAIN upd |-> IF k \in DOMAIN upd THEN upd[k] ELSE d[k]]

\* Mutant: the unsuffixed key takes the value of host 0.
gather_one_metric_FirstHost(all_reports, metric, expert) ==
  LET hosts == DOMAIN all_reports[metric]
      metric_reports ==
        [k \in {HostKey(metric, i) : i \in hosts} |->
           all_reports[metric][CHOOSE i \in hosts : HostKey(metric, i) = k]]
      updated == DictUpdate(all_reports, metric_reports)
  IN [kind |-> "return",
      value |-> [updated EXCEPT ![metric] = updated[HostKey(metric, 0)]]]

\* One iteration of the loop over report.keys().
gather_one_metric(all_reports, metric, expert) ==
  LET hosts == DOMAIN all_reports[metric]
      metric_reports ==
        [k \in {HostKey(metric, i) : i \in hosts} |->
           all_reports[metric][CHOOSE i \in hosts : HostKey(metric, i) = k]]
      updated == DictUpdate(all_reports, metric_reports)
  IN IF HostKey(metric, expert) \in DOMAIN updated
     THEN [kind |-> "return",
           value |-> [updated EXCEPT
                        ![metric] = updated[HostKey(metric, expert)]]]
     ELSE [kind |-> "raise", error |-> "KeyError"]

RECURSIVE gather_loop(_, _, _)
gather_loop(all_reports, keys, expert) ==
  IF keys = {} THEN [kind |-> "return", value |-> all_reports]
  ELSE LET metric == CHOOSE m \in keys : TRUE
           one == gather_one_metric(all_reports, metric, expert)
       IN IF one.kind = "raise" THEN one
          ELSE gather_loop(one.value, keys \ {metric}, expert)

gather_multihost_report(host_reports, expert) ==
  gather_loop(process_allgather(host_reports), DOMAIN host_reports[0],
              expert)

(***************************************************************************)
(* _get_axis_index_groups() and the collectives that use it.               *)
(***************************************************************************)
\* list(range(lo, hi))
RangeList(lo, hi) == [k \in 1..Max(0, hi - lo) |-> lo + k - 1]

\* Mutant: num_d and num_p are swapped.
_get_axis_index_groups_Swapped(num_d, num_p) ==
  [g \in 1..num_d |-> RangeList((g - 1) * num_p, (g - 1) * num_p + num_p)]

\* [list(range(i * num_d, i * num_d + num_d)) for i in range(num_p)]
_get_axis_index_groups(num_d, num_p) ==
  [g \in 1..num_p |-> RangeList((g - 1) * num_d, (g - 1) * num_d + num_d)]

\* The host process a global device index belongs to: the devices of process
\* i are i*num_d .. i*num_d + num_d - 1.
ProcessOfDevice(dev, num_d) == dev \div num_d

ListElems(seq) == {seq[k] : k \in DOMAIN seq}

\* The devices whose values a collective with axis_index_groups=groups
\* combines into the result on device dev: the members of dev's groups.
CollectiveSources(groups, dev) ==
  UNION {ListElems(groups[g]) : g \in {h \in DOMAIN groups : dev \in ListElems(groups[h])}}

RECURSIVE SumOver(_, _)
SumOver(f, S) ==
  IF S = {} THEN 0
  ELSE LET x == CHOOSE y \in S : TRUE IN f[x] + SumOver(f, S \ {x})

\* lax.pmean(values, axis_name='batch', axis_index_groups=groups): on every
\* device the mean over the device's group, kept as << sum, count >>.
pmean(values, groups) ==
  [dev \in DOMAIN values |->
     LET src == CollectiveSources(groups, dev)
     IN << SumOver(values, src), Cardinality(src) >>]

(***************************************************************************)
(* train(): collaborators of the trainer that the loop calls.              *)
(***************************************************************************)
\* jax.random.split(key): the two keys it returns.
split_first(key) == Append(key, "split0")
split_second(key) == Append(key, "split1")
\* jax.random.fold_in(key, data)
fold_in(key, data) == Append(key, "fold_in:" \o ToString(data))

\* trainer_utils.should_eval(global_step, eval_frequency, eval_steps):
\* eval_steps, when given (not empty), replaces the frequency.
should_eval(step, eval_frequency, eval_steps) ==
  IF eval_steps # {} THEN step \in eval_steps
  ELSE step % eval_frequency = 0

\* trainer_utils.check_for_early_stopping(name, value, mode, report)
check_for_early_stopping(target_name, target_value, mode, rep) ==
  /\ target_name # None
  /\ target_name \in DOMAIN rep
  /\ IF mode = "above" THEN rep[target_name] >= target_value
     ELSE rep[target_name] <= target_value

\* schedules.get_schedule_fn(...): the learning-rate schedule, a function of
\* the step.
lr_fn(step) == 10 + step

\* checkpoint.replicate_and_maybe_restore_checkpoint(...): the tuple
\* (global_step, sum_train_cost, preemption_count, is_restored) it returns
\* for the latest checkpoint of train_dir (NoDict when there is none).
replicate_and_maybe_restore_checkpoint(latest) ==
  IF IsNone(latest)
  THEN [global_step |-> 0, sum_train_cost |-> 0, preemption_count |-> 0,
        is_restored |-> FALSE]
  ELSE [global_step |-> TheDict(latest).global_step,
        sum_train_cost |-> TheDict(latest).sum_train_cost,
        preemption_count |-> TheDict(latest).preemption_count,
        is_restored |-> TRUE]

\* itertools.islice(dataset.train_iterator_fn(), start, stop) over the
\* endless training iterator: the number of batches it yields.
islice_len(start, stop) == Max(0, stop - start)

\* hps: the hyperparameters the loop reads besides the optimizer's.
hps == [batch_size |-> 2, train_size |-> 4]

\* The host processes of a run of train(): jax.process_index() of each.
Hosts == {0, 1}

\* jax.local_device_count() and jax.process_count() of a run, and the global
\* indices of the devices.
local_device_count == 2
process_count == Cardinality(Hosts)
TrainDevices == 0..(local_device_count * process_count - 1)

\* jax_utils.replicate(tree): every device holds the value.
replicate(tree) ==
  [k \in DOMAIN tree |-> [dev \in TrainDevices |-> tree[k]]]

\* _sync_batchnorm_stats under jax.pmap(..., axis_name='batch'): on every
\* device the mean over the devices of its host.
_sync_batchnorm_stats(stats) ==
  [k \in DOMAIN stats |->
     [dev \in TrainDevices |->
        LET mean == pmean(stats[k],
                          _get_axis_index_groups(local_device_count,
                                                 process_count))[dev]
        IN mean[1] \div mean[2]]]

\* Mutant: the statistics are passed on as they are.
_maybe_sync_batchnorm_stats_Skipped(stats) == stats

\* _maybe_sync_batchnorm_stats(batch_stats): `if batch_stats:` is false for
\* an empty dict.
_maybe_sync_batchnorm_stats(stats) ==
  IF DOMAIN stats # {} THEN _sync_batchnorm_stats(stats) ELSE stats

\* new_batch_stats of update_pmapped at a step: each device has statistics
\* of its own shard of the batch (even values, so that the means are whole).
new_batch_stats(stats, step) ==
  [k \in DOMAIN stats |->
     [dev \in TrainDevices |-> 2 * step + 2 * dev * dev]]

(***************************************************************************)
(* train(): the inputs of a run.                                           *)
(***************************************************************************)
MetricValues == 0..MaxMetric
Collections(names, values) == [names -> values]
BatchIters(names, values) ==
  UNION {[1..n -> Collections(names, values)] : n \in 0..MaxBatches}
Datasets(names, values) ==
  [{"train", "valid", "test"} -> BatchIters(names, values)]

\* What an evaluation inside train() can meet: the valid split alone has
\* data (at most one batch of one metric).
TrainMetricValues == {0, 1}
TrainDatasets ==
  {[train |-> << >>, valid |-> batch_iter, test |-> << >>] :
     batch_iter \in {<< >>} \cup
       {<< [loss |-> value] >> : value \in TrainMetricValues \cup {NaN}}}

EvalCadences ==
  {[eval_frequency |-> f, eval_steps |-> {}] : f \in 1..MaxEvalFrequency}
  \cup {[eval_frequency |-> 1, eval_steps |-> es] : es \in {{0, 2}, {1}}}

EarlyStoppings ==
  { [target_name |-> None, target_value |-> 0, mode |-> None],
    [target_name |-> "valid/loss", target_value |-> 1, mode |-> "above"],
    [target_name |-> "valid/loss", target_value |-> 0, mode |-> "below"] }

\* The metrics each configured eval callback returns from run_eval.
NoCallbacks == << >>
OneCallback == << [k \in {"callback/hessian"} |-> 0] >>
CollidingCallback == << [k \in {"train_cost"} |-> 0] >>
TwoCallbacks ==
  << [k \in {"callback/hessian"} |-> 0], [k \in {"callback/mt"} |-> 1] >>
StandardKeyCallback ==
  << [k \in {"callback/hessian"} |-> 0],
     [k \in {"callback/mt", "valid/loss"} |-> 1] >>
RepeatedKeyCallback ==
  << [k \in {"callback/hessian"} |-> 0],
     [k \in {"callback/mt", "callback/hessian"} |-> 1] >>

\* The configurations of a run: the optimizer name, opt_hparams.reinit_steps,
\* the learning rates set per expert as
\* 'opt_hparams.optimizers.<expert>.hps.learning_rate', the eval callbacks,
\* checkpoint_steps and the batch statistics of the initialized model (none
\* for a model without batch normalization).
RunConfigs ==
  { [optimizer |-> "adam", reinit_steps |-> {}, expert_lr |-> EmptyDict,
     callbacks |-> NoCallbacks, checkpoint_steps |-> {},
     batch_stats |-> [batch_norm |-> 0]],
    [optimizer |-> "adam", reinit_steps |-> {}, expert_lr |-> EmptyDict,
     callbacks |-> OneCallback, checkpoint_steps |-> {0, 2},
     batch_stats |-> EmptyDict],
    [optimizer |-> "adam", reinit_steps |-> {}, expert_lr |-> EmptyDict,
     callbacks |-> CollidingCallback, checkpoint_steps |-> {},
     batch_stats |-> EmptyDict],
    [optimizer |-> "samuel", reinit_steps |-> {}, expert_lr |-> EmptyDict,
     callbacks |-> NoCallbacks, checkpoint_steps |-> {0, 2},
     batch_stats |-> [batch_norm |-> 0]],
    [optimizer |-> "adam", reinit_steps |-> {}, expert_lr |-> EmptyDict,
     callbacks |-> StandardKeyCallback, checkpoint_steps |-> {},
     batch_stats |-> EmptyDict],
    [optimizer |-> "adam", reinit_steps |-> {}, expert_lr |-> EmptyDict,
     callbacks |-> RepeatedKeyCallback, checkpoint_steps |-> {},
     batch_stats |-> EmptyDict],
    [optimizer |-> "samuel", reinit_steps |-> {1}, expert_lr |-> EmptyDict,
     callbacks |-> TwoCallbacks, checkpoint_steps |-> {},
     batch_stats |-> [batch_norm |-> 0]],
    [optimizer |-> "samuel", reinit_steps |-> {},
     expert_lr |-> [e \in {0} |-> 7],
     callbacks |-> NoCallbacks, checkpoint_steps |-> {},
     batch_stats |-> EmptyDict] }

\* The latest checkpoint of train_dir when train() starts.
Checkpoints ==
  {NoDict} \cup
  {Some([global_step |-> s, sum_train_cost |-> 2, preemption_count |-> s % 2]) :
     s \in 1..(MaxTrainSteps + 1)}

TrainArgs ==
  [num_train_steps : 0..MaxTrainSteps,
   cadence : EvalCadences,
   early_stopping : EarlyStoppings,
   process_index : Hosts,
   opt : RunConfigs,
   latest_checkpoint : Checkpoints]

\* The outcomes of one update_pmapped call: << cost_val, grad_norm >>.
StepOutcomes == {<< 1, 1 >>, << 2, 3 >>}

(***************************************************************************)
(* train(): the report of an evaluation point.                             *)
(***************************************************************************)
\* add_expert_probs(report, expert_weights): one key per expert; the
\* probabilities themselves are internal to the optimizer and kept as 0.
add_expert_probs(rep) ==
  DictUpdate(rep, [k \in {"expert_prob-" \o ToString(i) : i \in Hosts} |-> 0])

\* The `if hps.optimizer == 'samuel':` block: rep is this host's report,
\* other the report of every other host.
samuel_report(rep, other, self, expert, ckpt_expert) ==
  LET gathered ==
        gather_multihost_report(
          [i \in Hosts |-> IF i = self THEN rep ELSE other], expert)
  IN IF gathered.kind = "raise" THEN gathered
     ELSE [kind |-> "return",
           value |-> DictUpdate(add_expert_probs(gathered.value),
                                [current_expert |-> expert,
                                 checkpointed_expert |-> ckpt_expert])]

\* sum_train_cost / max(1, global_step - prev_eval_step), kept as the pair
\* << numerator, denominator >>.
mean_train_cost(sum_cost, step, prev_step) ==
  << sum_cost, Max(1, step - prev_step) >>

\* report.update(learning_rate=..., global_step=..., ...); the wall-clock
\* values steps_per_sec and eval_time are kept as 0.
report_update(rep, rate, step, norm, preemptions, sum_cost, prev_step) ==
  DictUpdate(rep,
    [learning_rate |-> rate,
     global_step |-> step,
     epoch |-> (step * hps.batch_size) \div hps.train_size,
     steps_per_sec |-> 0,
     eval_time |-> 0,
     grad_norm |-> norm,
     preemption_count |-> preemptions,
     train_cost |-> mean_train_cost(sum_cost, step, prev_step)])

\* The loop over eval_callbacks: every callback's metrics are added unless
\* they share a key with the report.
\* set(callback_metrics.keys()).intersection(set(report.keys())), as the
\* condition of the if
keys_intersect_Never(callback_metrics, rep) == FALSE
keys_intersect(callback_metrics, rep) ==
  DOMAIN callback_metrics \cap DOMAIN rep # {}

RECURSIVE run_callbacks(_, _)
run_callbacks(rep, callback_metrics) ==
  IF callback_metrics = << >> THEN [kind |-> "return", value |-> rep]
  ELSE IF keys_intersect(Head(callback_metrics), rep)
       THEN [kind |-> "raise", error |-> "ValueError"]
       ELSE run_callbacks(DictUpdate(rep, Head(callback_metrics)),
                          Tail(callback_metrics))

\* Mutant: the checkpoint is written with the cost accumulator already reset.
CheckpointRecord_AfterReset(dir, model_params, step, preemptions, sum_cost, keep) ==
  [dir |-> dir, params |-> model_params, global_step |-> step,
   preemption_count |-> preemptions, sum_train_cost |-> 0,
   max_to_keep |-> keep]

\* The record save_unreplicated_checkpoint_background is called with.
CheckpointRecord(dir, model_params, step, preemptions, sum_cost, keep) ==
  [dir |-> dir, params |-> model_params, global_step |-> step,
   preemption_count |-> preemptions, sum_train_cost |-> sum_cost,
   max_to_keep |-> keep]

\* Mutant: the restored step is not folded into the data seed.
RestoredDataRng_NoFold(restored, key, step) == key

\* `preemption_count += 1` and the fold of the restored step into data_rng,
\* both under `if is_restored:`.
RestoredPreemptionCount(restored, count) ==
  IF restored THEN count + 1 ELSE count
RestoredDataRng(restored, key, step) ==
  IF restored THEN fold_in(key, step) ELSE key

\* Mutant: the increment skips a value.
NextGlobalStep_Skip(step) == step + 2

\* `global_step += 1`
NextGlobalStep(step) == step + 1

\* Mutant: the cadence is tested on the step before the increment.
PcAfterStep_BeforeIncrement(step, cadence) ==
  IF should_eval(step - 1, cadence.eval_frequency, cadence.eval_steps)
  THEN "eval" ELSE "loop"

\* `if trainer_utils.should_eval(global_step, eval_frequency, eval_steps):`
\* evaluated on the incremented global_step.
PcAfterStep(step, cadence) ==
  IF should_eval(step, cadence.eval_frequency, cadence.eval_steps)
  THEN "eval" ELSE "loop"

\* Mutant: the early-stopping condition is ignored.
PcAfterReport_NeverStops(early_stopping_condition) == "loop"

\* `if early_stopping_condition: ... return`
PcAfterReport(early_stopping_condition) ==
  IF early_stopping_condition THEN "stopped_early" ELSE "loop"

\* Mutant: the final evaluation is not guarded.
NeedsFinalEval_Always(prev_step, num_train_steps) == TRUE

\* `if prev_eval_step != num_train_steps:`
NeedsFinalEval(prev_step, num_train_steps) == prev_step # num_train_steps

\* Mutant: the params of the current expert are broadcast at every step.
broadcast_one_to_all_EveryStep(reinit, expert, owner) == expert

\* The `if global_step in hps.get('opt_hparams.reinit_steps', []):` block:
\* multihost_utils.broadcast_one_to_all(params, source) replaces the params
\* of every host by those of the host whose index is current_expert.  The
\* owner of a value is the host whose state and batches it was computed from.
broadcast_one_to_all(reinit, expert, owner) ==
  IF reinit THEN expert ELSE owner

\* In the same block, optimizer_state = optimizer_init_fn(params): a fresh
\* optimizer state built from the broadcast params.
optimizer_init_fn(reinit, broadcast_params, stepped_state) ==
  IF reinit THEN [owner |-> broadcast_params.owner, updates |-> 0]
  ELSE stepped_state

\* The current_expert of a state built by optimizer_init_fn.
initial_expert == 0

\* Mutant: the re-created state keeps the current_expert of init.
replace_current_expert_Dropped(reinit, expert) ==
  IF reinit THEN initial_expert ELSE expert

\* optimizer_state._replace(inner_state=optimizer_state.inner_state._replace(
\* current_expert=current_expert)) of the same block: the current_expert of
\* the optimizer state after the step, expert being the one its update left.
replace_current_expert(reinit, expert) ==
  IF reinit
  THEN LET fresh == initial_expert
           replaced == expert
       IN replaced
  ELSE expert

\* Mutant: the schedule is read at the step after the increment.
StepLearningRate_PostIncrement(expert_lr, expert, step) ==
  IF expert \in DOMAIN expert_lr THEN expert_lr[expert] ELSE lr_fn(step + 1)

\* hps.get('opt_hparams.optimizers.<expert>.hps.learning_rate',
\*         lr_fn(global_step))
StepLearningRate(expert_lr, expert, step) ==
  IF expert \in DOMAIN expert_lr THEN expert_lr[expert] ELSE lr_fn(step)

\* update_pmapped(optimizer_state, ..., lr, ...): update writes lr into the
\* state's hyperparams (line 281) and then calls optimizer_update_fn on that
\* state (lines 307-312).  learning_rate is the rate optimizer_update_fn
\* read, ran_on the number of updates the state it was given had received.
update_pmapped(state, rate) ==
  LET injected == [owner |-> state.owner, updates |-> state.updates,
                   learning_rate |-> rate]
  IN [optimizer_state |-> [owner |-> injected.owner,
                           updates |-> injected.updates + 1],
      learning_rate |-> injected.learning_rate,
      ran_on |-> injected.updates]

(***************************************************************************)
(* train(): the generator.  pc is the place the generator is at:           *)
(*   "loop"           at the head of `for batch in train_iter`             *)
(*   "eval"           should_eval was true, the evaluation is to run       *)
(*   "yielded"        suspended at the `yield report` of the loop          *)
(*   "final_yielded"  suspended at the `yield report` after the loop       *)
(*   "stopped_early"  returned from the early-stopping branch              *)
(*   "completed"      returned at the end of the function                  *)
(*   "raised"         an exception left the generator                      *)
(*   "idle"           train() is not running                               *)
(***************************************************************************)
TrainIdle ==
  /\ args = EmptyDict /\ pc = "idle" /\ global_step = 0 /\ start_step = 0
  /\ prev_eval_step = 0 /\ sum_train_cost = 0 /\ preemption_count = 0
  /\ is_restored = FALSE /\ data_rng = << >> /\ dataset_seed = << >>
  /\ train_iter = 0 /\ lr = << >> /\ grad_norm = << >>
  /\ params = EmptyDict /\ optimizer_state = EmptyDict
  /\ current_expert = 0 /\ checkpointed_expert = 0
  /\ report = EmptyDict /\ report_log = << >> /\ saves = << >>
  /\ pending_save = 0 /\ wait_calls = 0 /\ step_log = << >>
  /\ eval_log = << >> /\ eval_input = EmptyDict /\ error = None
  /\ batch_stats = EmptyDict /\ eval_stats = EmptyDict

\* Lines 453-612: everything train() does before the loop.
TrainInit ==
  /\ args \in TrainArgs
  /\ LET restored == replicate_and_maybe_restore_checkpoint(
                       args.latest_checkpoint)
         rng1 == split_first(<< "rng" >>)
         key == split_second(rng1)
     IN /\ is_restored = restored.is_restored
        /\ global_step = restored.global_step
        /\ sum_train_cost = restored.sum_train_cost
        /\ preemption_count =
             RestoredPreemptionCount(restored.is_restored,
                                     restored.preemption_count)
        /\ data_rng = RestoredDataRng(restored.is_restored, key,
                                      restored.global_step)
        /\ dataset_seed = data_rng
        /\ start_step = restored.global_step
        /\ prev_eval_step = restored.global_step
        /\ train_iter = islice_len(restored.global_step, args.num_train_steps)
        /\ params = [owner |-> args.process_index,
                     updates |-> restored.global_step]
        /\ optimizer_state = [owner |-> args.process_index,
                              updates |-> restored.global_step]
  /\ current_expert = initial_expert
  /\ checkpointed_expert = current_expert
  /\ lr = << >>
  /\ grad_norm = << >>
  /\ report = EmptyDict
  /\ report_log = << >>
  /\ saves = << >>
  /\ pending_save = 0
  /\ wait_calls = 0
  /\ step_log = << >>
  /\ eval_log = << >>
  /\ eval_input = EmptyDict
  /\ error = None
  /\ batch_stats = replicate(args.opt.batch_stats)
  /\ eval_stats = EmptyDict
  /\ pc = "loop"

\* Mutant: every process saves.
SaveOnProcessZero_EveryProcess(do_save, dir, keep) ==
  IF do_save
  THEN /\ saves' = Append(saves,
                     CheckpointRecord(dir, params, global_step,
                                      preemption_count, sum_train_cost, keep))
       /\ pending_save' = pending_save + 1
  ELSE UNCHANGED << saves, pending_save >>

\* checkpoint.save_unreplicated_checkpoint_background on process 0.
SaveOnProcessZero(do_save, dir, keep) ==
  IF do_save /\ args.process_index = 0
  THEN /\ saves' = Append(saves,
                     CheckpointRecord(dir, params, global_step,
                                      preemption_count, sum_train_cost, keep))
       /\ pending_save' = pending_save + 1
  ELSE UNCHANGED << saves, pending_save >>

\* Lines 614-675: one iteration of the loop up to the should_eval test.
TrainStep ==
  /\ pc = "loop"
  /\ train_iter > 0
  /\ SaveOnProcessZero(global_step \in args.opt.checkpoint_steps, "checkpoints",
                       None)
  /\ \E outcome \in StepOutcomes,
        expert \in (IF args.opt.optimizer = "samuel" THEN Hosts
                    ELSE {current_expert}) :
       LET rate == StepLearningRate(args.opt.expert_lr, current_expert,
                                    global_step)
           reinit == global_step \in args.opt.reinit_steps
       IN /\ lr' = Some(rate)
          /\ step_log' =
               Append(step_log,
                      [step |-> global_step, lr |-> rate,
                       expert |-> current_expert,
                       cost |-> outcome[1],
                       synced_to |-> IF reinit THEN Some(expert) ELSE NoDict,
                       learning_rate |->
                         update_pmapped(optimizer_state, rate).learning_rate,
                       ran_on |->
                         update_pmapped(optimizer_state, rate).ran_on])
          /\ grad_norm' = Some(outcome[2])
          /\ current_expert' = replace_current_expert(reinit, expert)
          /\ checkpointed_expert' =
               IF reinit THEN expert ELSE checkpointed_expert
          /\ params' = [owner |-> broadcast_one_to_all(reinit, expert,
                                                        params.owner),
                        updates |-> params.updates + 1]
          /\ optimizer_state' =
               optimizer_init_fn(reinit, params',
                                 update_pmapped(optimizer_state,
                                                rate).optimizer_state)
          /\ sum_train_cost' = sum_train_cost + outcome[1]
  /\ batch_stats' = new_batch_stats(batch_stats, global_step)
  /\ global_step' = NextGlobalStep(global_step)
  /\ train_iter' = train_iter - 1
  /\ pc' = PcAfterStep(global_step', args.cadence)
  /\ UNCHANGED << ev_vars, gm_vars, ax_vars, lib_vars, opt_vars >>
  /\ UNCHANGED << args, start_step, prev_eval_step, preemption_count,
                  is_restored, data_rng, dataset_seed, report, report_log,
                  wait_calls, eval_log, eval_input, error, eval_stats >>

\* The values the other hosts can contribute to a gathered report.
OtherHostValues ==
  IF args.opt.optimizer = "samuel" THEN TrainMetricValues ELSE {0}

\* The report of an evaluation point up to report.update(...): eval_metrics,
\* the samuel block and the bookkeeping keys.  norm is the optional
\* grad_norm: reading it before any step ran raises UnboundLocalError.
EvalReport(dataset, other, rate, norm) ==
  LET evaluated == eval_metrics(dataset)
      gathered ==
        IF evaluated.kind = "raise" THEN evaluated
        ELSE IF args.opt.optimizer = "samuel"
        THEN samuel_report(evaluated.value,
                           [k \in DOMAIN evaluated.value |-> other],
                           args.process_index, current_expert,
                           checkpointed_expert)
        ELSE evaluated
  IN IF gathered.kind = "raise" THEN gathered
     ELSE IF IsNone(norm)
     THEN [kind |-> "raise", error |-> "UnboundLocalError"]
     ELSE [kind |-> "return",
           value |-> report_update(gathered.value, rate, global_step,
                                   TheDict(norm), preemption_count,
                                   sum_train_cost, prev_eval_step)]

\* Lines 676-708: the evaluation of the loop, up to `yield report`.
Evaluate ==
  /\ pc = "eval"
  /\ batch_stats' = _maybe_sync_batchnorm_stats(batch_stats)
  /\ eval_stats' = batch_stats'
  /\ eval_log' = Append(eval_log, global_step)
  /\ \E dataset \in TrainDatasets, other \in OtherHostValues :
       /\ eval_input' = dataset
       /\ LET assembled == EvalReport(dataset, other, TheDict(lr), grad_norm)
              result == IF assembled.kind = "raise" THEN assembled
                        ELSE run_callbacks(assembled.value,
                                           args.opt.callbacks)
          IN IF result.kind = "raise"
          THEN /\ pc' = "raised"
               /\ error' = result.error
               /\ UNCHANGED << report, report_log >>
          ELSE /\ pc' = "yielded"
               /\ report' = result.value
               /\ report_log' = Append(report_log,
                                       [global_step |-> global_step,
                                        final |-> FALSE])
               /\ UNCHANGED error
  /\ UNCHANGED << ev_vars, gm_vars, ax_vars, lib_vars, opt_vars >>
  /\ UNCHANGED << args, global_step, start_step, prev_eval_step,
                  sum_train_cost, preemption_count, is_restored, data_rng,
                  dataset_seed, train_iter, lr, grad_norm, params,
                  optimizer_state, current_expert, checkpointed_expert, saves, pending_save,
                  wait_calls, step_log >>

\* Lines 709-740: the loop resumes after its yield.
AfterYield ==
  /\ pc = "yielded"
  /\ SaveOnProcessZero(TRUE, "train_dir", "default")
  /\ sum_train_cost' = 0
  /\ prev_eval_step' = global_step
  /\ pc' = PcAfterReport(
             check_for_early_stopping(args.early_stopping.target_name,
                                      args.early_stopping.target_value,
                                      args.early_stopping.mode, report))
  /\ UNCHANGED << ev_vars, gm_vars, ax_vars, lib_vars, opt_vars >>
  /\ UNCHANGED << args, global_step, start_step, preemption_count,
                  is_restored, data_rng, dataset_seed, train_iter, lr,
                  grad_norm, params, optimizer_state, current_expert,
                  checkpointed_expert,
                  report, report_log, wait_calls, step_log, eval_log,
                  eval_input, error, batch_stats, eval_stats >>

\* checkpoint.wait_for_checkpoint_save()
wait_for_checkpoint_save ==
  /\ wait_calls' = wait_calls + 1
  /\ pending_save' = 0

\* Lines 745-772: the loop is exhausted and the last step was no
\* evaluation step.
FinalEvaluate ==
  /\ pc = "loop"
  /\ train_iter = 0
  /\ NeedsFinalEval(prev_eval_step, args.num_train_steps)
  /\ batch_stats' = _maybe_sync_batchnorm_stats(batch_stats)
  /\ eval_stats' = batch_stats'
  /\ eval_log' = Append(eval_log, global_step)
  /\ \E dataset \in TrainDatasets, other \in OtherHostValues :
       /\ eval_input' = dataset
       /\ LET result == EvalReport(dataset, other, lr_fn(global_step),
                                   grad_norm)
          IN IF result.kind = "raise"
          THEN /\ pc' = "raised"
               /\ error' = result.error
               /\ lr' = IF result.error = "UnboundLocalError"
                        THEN Some(lr_fn(global_step)) ELSE lr
               /\ UNCHANGED << report, report_log >>
          ELSE /\ pc' = "final_yielded"
               /\ lr' = Some(lr_fn(global_step))
               /\ report' = result.value
               /\ report_log' = Append(report_log,
                                       [global_step |-> global_step,
                                        final |-> TRUE])
               /\ UNCHANGED error
  /\ UNCHANGED << ev_vars, gm_vars, ax_vars, lib_vars, opt_vars >>
  /\ UNCHANGED << args, global_step, start_step, prev_eval_step,
                  sum_train_cost, preemption_count, is_restored, data_rng,
                  dataset_seed, train_iter, grad_norm, params,
                  optimizer_state, current_expert, checkpointed_expert, saves, pending_save,
                  wait_calls, step_log >>

\* Lines 773-788: the generator resumes after the final yield.
AfterFinalYield ==
  /\ pc = "final_yielded"
  /\ IF args.process_index = 0
     THEN saves' = Append(saves,
                     CheckpointRecord("train_dir", params, global_step,
                                      preemption_count, sum_train_cost,
                                      "default"))
     ELSE UNCHANGED saves
  /\ wait_for_checkpoint_save
  /\ pc' = "completed"
  /\ UNCHANGED << ev_vars, gm_vars, ax_vars, lib_vars, opt_vars >>
  /\ UNCHANGED << args, global_step, start_step, prev_eval_step,
                  sum_train_cost, preemption_count, is_restored, data_rng,
                  dataset_seed, train_iter, lr, grad_norm, params,
                  optimizer_state, current_expert, checkpointed_expert, report, report_log,
                  step_log, eval_log, eval_input, error, batch_stats,
                  eval_stats >>

\* Lines 745 and 788: the loop is exhausted and the last step was an
\* evaluation step.
ReturnAfterLoop ==
  /\ pc = "loop"
  /\ train_iter = 0
  /\ ~NeedsFinalEval(prev_eval_step, args.num_train_steps)
  /\ wait_for_checkpoint_save
  /\ pc' = "completed"
  /\ UNCHANGED << ev_vars, gm_vars, ax_vars, lib_vars, opt_vars >>
  /\ UNCHANGED << args, global_step, start_step, prev_eval_step,
                  sum_train_cost, preemption_count, is_restored, data_rng,
                  dataset_seed, train_iter, lr, grad_norm, params,
                  optimizer_state, current_expert, checkpointed_expert, report, report_log,
                  saves, step_log, eval_log, eval_input, error, batch_stats,
                  eval_stats >>

(***************************************************************************)
(* eval_metrics called on a dataset.                                       *)
(***************************************************************************)
EvIdle == ev_dataset = EmptyDict /\ ev_result = EmptyDict /\ ev_pc = "idle"

\* The datasets: two metrics per batch, MaxBatches + 1 batches in all.
EvDatasets ==
  {ds \in Datasets({"loss", "error_rate"}, {1, NaN}) :
     Len(ds["train"]) + Len(ds["valid"]) + Len(ds["test"]) <= MaxBatches + 1}

EvInit == ev_dataset \in EvDatasets /\ ev_result = EmptyDict /\ ev_pc = "call"

EvalMetricsCall ==
  /\ ev_pc = "call"
  /\ ev_result' = eval_metrics(ev_dataset)
  /\ ev_pc' = "done"
  /\ UNCHANGED << ev_dataset, train_vars, gm_vars, ax_vars, lib_vars, opt_vars >>

(***************************************************************************)
(* gather_multihost_report called by the hosts of a run.                   *)
(***************************************************************************)
GmIdle ==
  gm_reports = EmptyDict /\ gm_expert = 0 /\ gm_result = EmptyDict
  /\ gm_pc = "idle"

GmInit ==
  /\ \E n \in 1..MaxReportHosts :
       \E keys \in {{}, {"valid/loss"}, {"train/loss", "valid/loss"}} :
         gm_reports \in [0..(n - 1) -> [keys -> MetricValues]]
  /\ gm_expert \in 0..(MaxReportHosts - 1)
  /\ gm_result = EmptyDict
  /\ gm_pc = "call"

GatherCall ==
  /\ gm_pc = "call"
  /\ gm_result' = gather_multihost_report(gm_reports, gm_expert)
  /\ gm_pc' = "done"
  /\ UNCHANGED << gm_reports, gm_expert, train_vars, ev_vars, ax_vars,
                  lib_vars, opt_vars >>

(***************************************************************************)
(* _get_axis_index_groups and a collective that uses its groups.           *)
(***************************************************************************)
AxIdle ==
  /\ ax_num_d = 0 /\ ax_num_p = 0 /\ ax_groups = << >>
  /\ ax_values = EmptyDict /\ ax_mean = EmptyDict /\ ax_pc = "idle"

AxInit ==
  /\ ax_num_d \in 1..MaxDevices
  /\ ax_num_p \in 1..MaxHosts
  /\ ax_groups = << >>
  /\ ax_values = EmptyDict
  /\ ax_mean = EmptyDict
  /\ ax_pc = "call"

AxDevices == 0..(ax_num_d * ax_num_p - 1)

GetAxisIndexGroups ==
  /\ ax_pc = "call"
  /\ ax_groups' = _get_axis_index_groups(ax_num_d, ax_num_p)
  /\ ax_pc' = "groups"
  /\ UNCHANGED << ax_num_d, ax_num_p, ax_values, ax_mean, train_vars,
                  ev_vars, gm_vars, lib_vars, opt_vars >>

\* lax.pmean(..., axis_index_groups=_get_axis_index_groups()) of update,
\* applied to values that are 1 on one device and 0 on the others.
CollectivePmean ==
  /\ ax_pc = "groups"
  /\ \E src \in AxDevices :
       ax_values' = [dev \in AxDevices |-> IF dev = src THEN 1 ELSE 0]
  /\ ax_mean' = pmean(ax_values', ax_groups)
  /\ ax_pc' = "reduced"
  /\ UNCHANGED << ax_num_d, ax_num_p, ax_groups, train_vars, ev_vars,
                  gm_vars, lib_vars, opt_vars >>

(***************************************************************************)
(* Optimizer states.  An optax.InjectHyperparamsState carries the dict     *)
(* hyperparams; a gradient_accumulator.GradientAccumulatorState wraps a    *)
(* base_state; any other state class is known by its name alone.           *)
(***************************************************************************)
InjectHyperparamsState(hyperparams) ==
  [type |-> "InjectHyperparamsState", hyperparams |-> hyperparams]
GradientAccumulatorState(base_state) ==
  [type |-> "GradientAccumulatorState", base_state |-> base_state]
OtherState(name) == [type |-> name]

\* Mutant: the assignment to the learning-rate slot is dropped.
InjectIntoHyperparams_Dropped(hyperparams, rate) == hyperparams

\* if 'learning_rate' in optimizer_state.hyperparams:
\*   optimizer_state.hyperparams['learning_rate'] = lr
InjectIntoHyperparams(hyperparams, rate) ==
  IF "learning_rate" \in DOMAIN hyperparams
  THEN [hyperparams EXCEPT !["learning_rate"] = rate]
  ELSE hyperparams

\* Mutant: a state of an unknown class is passed over in silence.
UnsupportedState_Accepted(state) ==
  [kind |-> "return", error |-> None, state |-> state]

\* else: raise ValueError('Unsupported optimizer_state type ...')
UnsupportedState(state) ==
  [kind |-> "raise", error |-> "ValueError", state |-> state]

\* _inject_learning_rate(optimizer_state, lr) mutates the state it is given
\* and returns nothing: the result holds the state object after the call and
\* whether the call returned or raised.
RECURSIVE _inject_learning_rate(_, _)
_inject_learning_rate(state, rate) ==
  IF state.type = "InjectHyperparamsState"
  THEN [kind |-> "return", error |-> None,
        state |-> [state EXCEPT
                     !.hyperparams = InjectIntoHyperparams(@, rate)]]
  ELSE IF state.type = "GradientAccumulatorState"
  THEN LET inner == _inject_learning_rate(state.base_state, rate)
       IN [kind |-> inner.kind, error |-> inner.error,
           state |-> [state EXCEPT !.base_state = inner.state]]
  ELSE UnsupportedState(state)

\* Reading the learning-rate slot of an optimizer state: the hyperparameter
\* 'learning_rate' of the InjectHyperparamsState, looked up through the
\* base_state of the wrappers; none if the state has no such entry.
RECURSIVE LearningRateSlot(_)
LearningRateSlot(state) ==
  IF state.type = "InjectHyperparamsState"
  THEN IF "learning_rate" \in DOMAIN state.hyperparams
       THEN Some(state.hyperparams["learning_rate"]) ELSE NoDict
  ELSE IF state.type = "GradientAccumulatorState"
  THEN LearningRateSlot(state.base_state)
  ELSE NoDict

\* The innermost state of a chain of wrappers.
RECURSIVE InnermostState(_)
InnermostState(state) ==
  IF state.type = "GradientAccumulatorState"
  THEN InnermostState(state.base_state) ELSE state

RECURSIVE NestingDepth(_)
NestingDepth(state) ==
  IF state.type = "GradientAccumulatorState"
  THEN 1 + NestingDepth(state.base_state) ELSE 0

\* The hyperparams dicts of an InjectHyperparamsState: learning_rate is
\* injectable in every optimizer of get_optimizer (created as 0.0, then the
\* rate of the previous step); a wrapped transformation that takes no
\* learning rate has no such entry.
HyperparamKeySets ==
  { {"learning_rate", "weight_decay"}, {"learning_rate", "train_loss"},
    {"train_loss"}, {"weight_decay"} }
HyperparamDicts ==
  UNION {[keys -> {0, 2}] : keys \in HyperparamKeySets}

RECURSIVE Wrapped(_, _)
Wrapped(state, depth) ==
  IF depth = 0 THEN state
  ELSE GradientAccumulatorState(Wrapped(state, depth - 1))

OptimizerStates ==
  LET innermost ==
        {InjectHyperparamsState(h) : h \in HyperparamDicts}
        \cup {OtherState("ScaleByAdamState"), OtherState("EmptyState")}
  IN {Wrapped(s, depth) : s \in innermost, depth \in 0..MaxNesting}

LearningRates == {1, 3}

(***************************************************************************)
(* _inject_learning_rate called on an optimizer state.                     *)
(***************************************************************************)
InjIdle ==
  /\ inj_state = EmptyDict /\ inj_lr = 0 /\ inj_result = EmptyDict
  /\ inj_pc = "idle"

InjInit ==
  /\ inj_state \in OptimizerStates
  /\ inj_lr \in LearningRates
  /\ inj_result = EmptyDict
  /\ inj_pc = "call"

InjectCall ==
  /\ inj_pc = "call"
  /\ inj_result' = _inject_learning_rate(inj_state, inj_lr)
  /\ inj_pc' = "done"
  /\ UNCHANGED << inj_state, inj_lr >>
  /\ UNCHANGED << train_vars, ev_vars, gm_vars, ax_vars, up_vars, tg_vars, opt_vars >>

(***************************************************************************)
(* update(): one step on one device.  A tree is a dict of leaves, a leaf a *)
(* sequence of numbers.  The gradient of a step is an integer tree; what   *)
(* the clipping produces is kept exactly, every number as the fraction     *)
(* << numerator, denominator >>.                                           *)
(***************************************************************************)
\* _GRAD_CLIP_EPS = 1e-6, as a fraction.
_GRAD_CLIP_EPS == << 1, 1000000 >>

\* jax.tree_map(f, tree)
tree_map(f(_), tree) ==
  [k \in DOMAIN tree |-> [i \in DOMAIN tree[k] |-> f(tree[k][i])]]

\* An exact number as a fraction.
Exact(x) == << x, 1 >>

RECURSIVE SumSquares(_)
SumSquares(leaf) ==
  IF leaf = << >> THEN 0
  ELSE Head(leaf) * Head(leaf) + SumSquares(Tail(leaf))

\* model_utils.l2_regularization(tree, 0): the squared L2 norm of the tree
\* taken as one flat vector.
l2_regularization(tree, rank_threshold) ==
  SumOver([k \in DOMAIN tree |-> SumSquares(tree[k])], DOMAIN tree)

\* jnp.sqrt on the squared norms that occur (all perfect squares).
sqrt(n) == CHOOSE r \in 0..n : r * r = n

\* lax.pmean of a tree over the devices of this host, as seen on device dev.
tree_pmean(device_trees, groups, dev) ==
  [k \in DOMAIN device_trees[dev] |->
     [i \in DOMAIN device_trees[dev][k] |->
        LET mean == pmean([d \in DOMAIN device_trees |->
                             device_trees[d][k][i]], groups)[dev]
        IN mean[1] \div mean[2]]]

\* `if grad_clip:` is false for None and for 0.
ClipApplies(grad_clip) == ~IsNone(grad_clip) /\ TheDict(grad_clip) # 0

\* lambda x: x / (grad_norm + _GRAD_CLIP_EPS) * grad_clip
ScaledLeaf(x, norm, threshold) ==
  << x * threshold * _GRAD_CLIP_EPS[2],
     norm * _GRAD_CLIP_EPS[2] + _GRAD_CLIP_EPS[1] >>

\* Lines 297-301: the gradient after the clipping block.
ClippedGrad(grad, norm, grad_clip) ==
  IF ClipApplies(grad_clip)
  THEN LET scaled_grad ==
             [k \in DOMAIN grad |->
                [i \in DOMAIN grad[k] |->
                   ScaledLeaf(grad[k][i], norm, TheDict(grad_clip))]]
       IN IF norm > TheDict(grad_clip) THEN scaled_grad
          ELSE tree_map(Exact, grad)
  ELSE tree_map(Exact, grad)

\* if 'train_loss' in optimizer_state.hyperparams:
\*   optimizer_state.hyperparams['train_loss'] = cost_value
InjectTrainLoss(state, cost_value) ==
  IF "train_loss" \in DOMAIN state.hyperparams
  THEN [state EXCEPT !.hyperparams["train_loss"] = cost_value]
  ELSE state

\* optimizer_update_fn for plain gradient descent with the injected rate:
\* the update of a number is -learning_rate times its gradient.
optimizer_update_fn(grad, state) ==
  [k \in DOMAIN grad |->
     [i \in DOMAIN grad[k] |->
        << (0 - state.hyperparams["learning_rate"]) * grad[k][i][1],
           grad[k][i][2] >>]]

\* optax.apply_updates(params, model_updates)
apply_updates(tree, model_updates) ==
  [k \in DOMAIN tree |->
     [i \in DOMAIN tree[k] |->
        << tree[k][i] * model_updates[k][i][2] + model_updates[k][i][1],
           model_updates[k][i][2] >>]]

\* metrics_update_fn(metrics_state, grad, params, new_params): the new
\* metrics state is known by the arguments it was computed from.
metrics_update_fn(metrics_state, model_gradient, old_params, new_params) ==
  [model_gradient |-> model_gradient, old_params |-> old_params,
   new_params |-> new_params]

\* The gradient handed to metrics_update_fn at line 317: the variable grad,
\* which the clipping block has reassigned.
MetricsGradient(averaged_grad, clipped_grad) == clipped_grad

\* update(...) on device 0 of a host of two devices; a are its arguments,
\* with the gradients that value_and_grad computes on the two devices.
update(a) ==
  LET injected == _inject_learning_rate(a.optimizer_state, a.lr)
      groups == _get_axis_index_groups(2, 1)
      grad == tree_pmean(a.device_grads, groups, 0)
      cost_value ==
        LET mean == pmean(a.device_costs, groups)[0]
        IN mean[1] \div mean[2]
      grad_norm_ == sqrt(l2_regularization(grad, 0))
      clipped == ClippedGrad(grad, grad_norm_, a.grad_clip)
      state == InjectTrainLoss(injected.state, cost_value)
      model_updates == optimizer_update_fn(clipped, state)
      new_params == apply_updates(a.params, model_updates)
  IN IF injected.kind = "raise"
     THEN [kind |-> "raise", error |-> injected.error]
     ELSE [kind |-> "return", error |-> None,
           optimizer_grad |-> clipped,
           new_optimizer_state |-> state,
           new_params |-> new_params,
           cost_value |-> cost_value,
           new_metrics_state |->
             IF IsNone(a.metrics_state) THEN NoDict
             ELSE Some(metrics_update_fn(
                         TheDict(a.metrics_state),
                         MetricsGradient(tree_map(Exact, grad), clipped),
                         a.params, new_params)),
           grad_norm |-> grad_norm_]

\* The device-averaged gradients of a step (all of integer norm) and the
\* params they are gradients of.
GradTrees ==
  { [w |-> << 0, 0 >>], [w |-> << 3, 4 >>], [w |-> << 6, 8 >>],
    [w |-> << 3 >>, b |-> << 4 >>], [w |-> << 1 >>, b |-> << 0 >>] }
ParamsLike(tree) == [k \in DOMAIN tree |-> [i \in DOMAIN tree[k] |-> 1]]

\* The two devices' gradients: the average plus and minus a spread.
DeviceTrees(tree, spread) ==
  [d \in {0, 1} |->
     [k \in DOMAIN tree |->
        [i \in DOMAIN tree[k] |->
           tree[k][i] + (IF d = 0 THEN spread ELSE 0 - spread)]]]

\* hps.grad_clip: None or a threshold.
ClipThresholds == {NoDict} \cup {Some(t) : t \in 0..MaxGradClip}

UpdateArgs ==
  {[optimizer_state |-> state, params |-> ParamsLike(tree),
    averaged_grad |-> tree, device_grads |-> DeviceTrees(tree, spread),
    device_costs |-> [d \in {0, 1} |-> 2 + 2 * d], lr |-> rate,
    grad_clip |-> threshold, metrics_state |-> metrics] :
     state \in {InjectHyperparamsState([learning_rate |-> 0,
                                        weight_decay |-> 0]),
                InjectHyperparamsState([learning_rate |-> 0,
                                        train_loss |-> 0]),
                OtherState("ScaleByAdamState")},
     tree \in GradTrees, spread \in {0, 1}, rate \in LearningRates,
     threshold \in ClipThresholds,
     metrics \in {NoDict, Some([created |-> TRUE])}}

UpIdle == up_args = EmptyDict /\ up_result = EmptyDict /\ up_pc = "idle"

UpInit == up_args \in UpdateArgs /\ up_result = EmptyDict /\ up_pc = "call"

UpdateCall ==
  /\ up_pc = "call"
  /\ up_result' = update(up_args)
  /\ up_pc' = "done"
  /\ UNCHANGED up_args
  /\ UNCHANGED << train_vars, ev_vars, gm_vars, ax_vars, inj_vars, tg_vars, opt_vars >>

(***************************************************************************)
(* training_metrics_grabber.py.  Array elements are exact fractions        *)
(* << numerator, denominator >> in lowest terms with a positive            *)
(* denominator; an instance of a dataclass is a record with the field      *)
(* `class`; a norm is kept as the number it is the square root of.         *)
(***************************************************************************)
RECURSIVE GCD(_, _)
GCD(a, b) == IF b = 0 THEN a ELSE GCD(b, a % b)
Abs(x) == IF x < 0 THEN 0 - x ELSE x
Frac(n, d) ==
  LET g == GCD(Abs(n), Abs(d))
  IN IF d < 0 THEN << (0 - n) \div g, (0 - d) \div g >>
     ELSE << n \div g, d \div g >>
FracAdd(x, y) == Frac(x[1] * y[2] + y[1] * x[2], x[2] * y[2])
FracSub(x, y) == Frac(x[1] * y[2] - y[1] * x[2], x[2] * y[2])
FracMul(x, y) == Frac(x[1] * y[1], x[2] * y[2])

\* Elementwise operations on arrays.
ArraySub(x, y) == [i \in DOMAIN x |-> FracSub(x[i], y[i])]
square(x) == [i \in DOMAIN x |-> FracMul(x[i], x[i])]
zeros_like(x) == [i \in DOMAIN x |-> Exact(0)]

\* jnp.linalg.norm(new_param.reshape(-1)) of an array of whole numbers.
linalg_norm(x) ==
  [sqrt_of |-> SumSquares([i \in DOMAIN x |-> x[i][1]])]

\* Mutant: the weights of the old average and of the new value are swapped.
EmaStep_Swapped(ema_beta, ema, value) ==
  [i \in DOMAIN ema |->
     FracAdd(FracMul(FracSub(Exact(1), ema_beta), ema[i]),
             FracMul(ema_beta, value[i]))]

\* ema_beta * leaf_state.<field> + (1.0 - ema_beta) * <value>
EmaStep(ema_beta, ema, value) ==
  [i \in DOMAIN ema |->
     FracAdd(FracMul(ema_beta, ema[i]),
             FracMul(FracSub(Exact(1), ema_beta), value[i]))]

_MetricsLeafState(grad_ema, grad_sq_ema, param_norm, update_ema, update_sq_ema) ==
  [class |-> "_MetricsLeafState", grad_ema |-> grad_ema,
   grad_sq_ema |-> grad_sq_ema, param_norm |-> param_norm,
   update_ema |-> update_ema, update_sq_ema |-> update_sq_ema]

LeafFields ==
  {"grad_ema", "grad_sq_ema", "param_norm", "update_ema", "update_sq_ema"}

_update_param_stats(leaf_state, param_gradient, param_update, new_param, config) ==
  LET ema_beta == config.ema_beta
      param_grad_sq == square(param_gradient)
      update_sq == square(param_update)
  IN _MetricsLeafState(
       EmaStep(ema_beta, leaf_state.grad_ema, param_gradient),
       EmaStep(ema_beta, leaf_state.grad_sq_ema, param_grad_sq),
       linalg_norm(new_param),
       EmaStep(ema_beta, leaf_state.update_ema, param_update),
       EmaStep(ema_beta, leaf_state.update_sq_ema, update_sq))

\* Mutant: every config is accepted.
_validate_config_Lenient(config) == [kind |-> "return", error |-> None]

\* _validate_config(config)
_validate_config(config) ==
  IF "ema_beta" \notin DOMAIN config
  THEN [kind |-> "raise", error |-> "ValueError"]
  ELSE [kind |-> "return", error |-> None]

\* _node_init(x) of create
_node_init(x) ==
  _MetricsLeafState(zeros_like(x), zeros_like(x), [sqrt_of |-> 0],
                    zeros_like(x), zeros_like(x))

\* TrainingMetricsGrabber.create(model_params, config)
TrainingMetricsGrabber_create(model_params, config) ==
  IF _validate_config(config).kind = "raise" THEN _validate_config(config)
  ELSE [kind |-> "return", error |-> None,
        value |-> [class |-> "TrainingMetricsGrabber",
                   state |-> [k \in DOMAIN model_params |->
                                _node_init(model_params[k])],
                   config |-> config]]

\* TrainingMetricsGrabber.update(self, model_gradient, old_params,
\* new_params) for trees of one structure.
TrainingMetricsGrabber_update(self, model_gradient, old_params, new_params) ==
  [self EXCEPT
     !.state = [k \in DOMAIN model_gradient |->
                  _update_param_stats(self.state[k], model_gradient[k],
                                      ArraySub(new_params[k], old_params[k]),
                                      new_params[k], self.config)]]

\* flax.serialization.to_state_dict of a _MetricsLeafState: the dict of its
\* fields; of the state tree: the dict of its leaves' dicts.
to_state_dict_leaf(leaf_state) == [f \in LeafFields |-> leaf_state[f]]
to_state_dict(tree) == [k \in DOMAIN tree |-> to_state_dict_leaf(tree[k])]

\* TrainingMetricsGrabber.state_dict(self)
state_dict(self) == [state |-> to_state_dict(self.state)]

\* flax.serialization.from_state_dict(target, state) of a state tree: the
\* keys of the target dict must be in the state dict, and the fields of a
\* dataclass must be the keys of its dict; the values are those of the state
\* dict, the classes those of the target.
from_state_dict(target, state) ==
  IF \/ ~(DOMAIN target \subseteq DOMAIN state)
     \/ \E k \in DOMAIN target : DOMAIN state[k] # LeafFields
  THEN [kind |-> "raise", error |-> "ValueError"]
  ELSE [kind |-> "return", error |-> None,
        value |-> [k \in DOMAIN target |->
                     [f \in LeafFields \cup {"class"} |->
                        IF f = "class" THEN target[k]["class"]
                        ELSE state[k][f]]]]

\* Mutant: the restored object keeps the state of the template.
restore_state_KeepsTemplate(self, state, state_dict_) ==
  [kind |-> "return", error |-> None, value |-> self]

\* TrainingMetricsGrabber.restore_state(self, state, state_dict)
restore_state(self, state, state_dict_) ==
  LET restored == from_state_dict(state, state_dict_["state"])
  IN IF restored.kind = "raise" THEN restored
     ELSE [kind |-> "return", error |-> None,
           value |-> [self EXCEPT !.state = restored.value]]

\* The positional parameters of restore_state.
restore_state_parameters == << "self", "state", "state_dict" >>

\* serialization.register_serialization_state(TrainingMetricsGrabber,
\* TrainingMetricsGrabber.state_dict, TrainingMetricsGrabber.restore_state,
\* override=True): flax restores a TrainingMetricsGrabber target by calling
\* the registered function as ty_from_state_dict(target, state).
registered_from_state_dict(target, state) ==
  LET arguments == << target, state >>
  IN IF Len(arguments) # Len(restore_state_parameters)
     THEN [kind |-> "raise", error |-> "TypeError"]
     ELSE restore_state(arguments[1], arguments[2], arguments[3])

\* checkpoint.save_checkpoint(dir, step, {'training_metrics_grabber': g}):
\* the state dict written for the grabber.
save_checkpoint(grabber) ==
  [training_metrics_grabber |-> state_dict(grabber)]

\* checkpoint.load_latest_checkpoint(dir, {'training_metrics_grabber': t}):
\* the target restored from the state dict that was written.
load_latest_checkpoint(saved, target) ==
  registered_from_state_dict(target.training_metrics_grabber,
                             saved.training_metrics_grabber)

(***************************************************************************)
(* A TrainingMetricsGrabber through its life: created, updated once per    *)
(* step, then restored into a fresh template.                              *)
(***************************************************************************)
Betas == {<< 0, 1 >>, << 1, 2 >>, << 3, 4 >>}
GrabberParams ==
  { [layer1 |-> << Exact(0) >>],
    [layer1 |-> << Exact(0) >>, layer2 |-> << Exact(0), Exact(0) >>] }
LeafGradients(k) ==
  IF k = "layer1" THEN {<< Exact(1) >>, << Exact(2) >>}
  ELSE {<< Exact(3), Exact(1) >>, << Exact(1), Exact(0 - 2) >>}
GrabberGradients(tree) ==
  {g \in [DOMAIN tree -> UNION {LeafGradients(k) : k \in DOMAIN tree}] :
     \A k \in DOMAIN tree : g[k] \in LeafGradients(k)}
ParamSteps == {0 - 1, 2}
\* Configs with ema_beta, the empty config, and configs with other keys only.
GrabberConfigs ==
  {[ema_beta |-> b] : b \in Betas}
    \cup {EmptyDict, [ema_decay |-> << 1, 2 >>], [beta |-> << 3, 4 >>]}

TgIdle ==
  /\ tg_config = EmptyDict /\ tg_created = EmptyDict
  /\ tg_grabber = EmptyDict /\ tg_params = EmptyDict /\ tg_history = << >>
  /\ tg_restored = EmptyDict /\ tg_pc = "idle"

TgInit ==
  /\ tg_params \in GrabberParams
  /\ tg_config \in GrabberConfigs
  /\ tg_created = EmptyDict
  /\ tg_grabber = EmptyDict
  /\ tg_history = << >>
  /\ tg_restored = EmptyDict
  /\ tg_pc = "new"

\* TrainingMetricsGrabber.create(params, config): the grabber it returns,
\* or the error it raises.
GrabberCreate ==
  /\ tg_pc = "new"
  /\ tg_created' = TrainingMetricsGrabber_create(tg_params, tg_config)
  /\ IF tg_created'.kind = "raise"
     THEN /\ tg_grabber' = EmptyDict
          /\ tg_pc' = "raised"
     ELSE /\ tg_grabber' = tg_created'.value
          /\ tg_pc' = "live"
  /\ UNCHANGED << tg_config, tg_params, tg_history, tg_restored >>
  /\ UNCHANGED << train_vars, ev_vars, gm_vars, ax_vars, inj_vars, up_vars, opt_vars >>

\* One training step: training_metrics_grabber.update(grad, params,
\* new_params).
GrabberUpdate ==
  /\ tg_pc = "live"
  /\ Len(tg_history) < MaxUpdates
  /\ \E grad \in GrabberGradients(tg_params), step \in ParamSteps :
       LET new_params ==
             [k \in DOMAIN tg_params |->
                [i \in DOMAIN tg_params[k] |->
                   FracAdd(tg_params[k][i], Exact(step))]]
       IN /\ tg_grabber' = TrainingMetricsGrabber_update(
                             tg_grabber, grad, tg_params, new_params)
          /\ tg_history' = Append(tg_history,
                                  [model_gradient |-> grad,
                                   old_params |-> tg_params,
                                   new_params |-> new_params])
          /\ tg_params' = new_params
  /\ UNCHANGED << tg_config, tg_created, tg_restored, tg_pc >>
  /\ UNCHANGED << train_vars, ev_vars, gm_vars, ax_vars, inj_vars, up_vars, opt_vars >>

\* The template a restore starts from: a grabber created from params of the
\* same structure.
Template ==
  TrainingMetricsGrabber_create(tg_params, tg_grabber.config).value

\* template.restore_state(template.state, grabber.state_dict()) called as a
\* method.
GrabberRestoreState ==
  /\ tg_pc = "live"
  /\ tg_restored' = restore_state(Template, Template.state,
                                  state_dict(tg_grabber))
  /\ tg_pc' = "restored by call"
  /\ UNCHANGED << tg_config, tg_created, tg_grabber, tg_params, tg_history >>
  /\ UNCHANGED << train_vars, ev_vars, gm_vars, ax_vars, inj_vars, up_vars, opt_vars >>

\* The grabber saved in a checkpoint and loaded into the template.
GrabberRestoreCheckpoint ==
  /\ tg_pc = "live"
  /\ tg_restored' = load_latest_checkpoint(
                      save_checkpoint(tg_grabber),
                      [training_metrics_grabber |-> Template])
  /\ tg_pc' = "restored from checkpoint"
  /\ UNCHANGED << tg_config, tg_created, tg_grabber, tg_params, tg_history >>
  /\ UNCHANGED << train_vars, ev_vars, gm_vars, ax_vars, inj_vars, up_vars, opt_vars >>

(***************************************************************************)
(* optimizer_lib/transform.py: polyak_hb and scale_by_learning_rate, run   *)
(* by _optimizer_loop of optimizer_lib/test_transform.py.                  *)
(*                                                                         *)
(* The numbers of this part are decimals with ten digits after the point:  *)
(* the number N * 10^-10 is the pair << hi, lo >> with N = hi * Limb + lo  *)
(* and 0 <= lo < Limb.  With a learning rate in hundredths and a decay in  *)
(* tenths, five iterations from integer parameters are exact in them.      *)
(***************************************************************************)
Limb == 100000
FxNorm(hi, lo) == << hi + (lo \div Limb), lo % Limb >>
\* The integer n.
FxInt(n) == << n * Limb, 0 >>
\* The number m * 10^-6.
FxMicro(m) == FxNorm(m \div 10, (m % 10) * (Limb \div 10))
FxAdd(x, y) == FxNorm(x[1] + y[1], x[2] + y[2])
FxSub(x, y) == FxNorm(x[1] - y[1], x[2] - y[2])
\* x * k for an integer k.
FxScale(x, k) == FxNorm(x[1] * k, x[2] * k)
\* x / k for an integer k > 0.
FxDiv(x, k) == FxNorm(x[1] \div k, ((x[1] % k) * Limb + x[2]) \div k)
\* x * q for a fraction q = << numerator, denominator >>.
FxTimes(x, q) == FxDiv(FxScale(x, q[1]), q[2])
\* |x - y| <= 10^-5
FxClose(x, y) ==
  LET d == FxSub(x, y)
  IN \/ d[1] = 0
     \/ d[1] = 0 - 1
     \/ d[1] = 1 /\ d[2] = 0

\* jax.tree_multimap(f, a, b) over two trees of the same structure
tree_multimap(f(_, _), a, b) ==
  [k \in DOMAIN a |-> [i \in DOMAIN a[k] |-> f(a[k][i], b[k][i])]]

\* optax.trace(decay, nesterov): init gives a zero trace; update computes
\* new_trace = g + decay * trace and hands on new_trace, or with nesterov
\* g + decay * new_trace.
trace(decay, nesterov) ==
  [transform |-> "trace", decay |-> decay, nesterov |-> nesterov]

\* optax.scale(step_size)
scale(step_size) == [transform |-> "scale", step_size |-> step_size]

polyak_hb_Nesterov(decay) == trace(decay, TRUE)
polyak_hb(decay) == trace(decay, FALSE)

\* scale_by_learning_rate(learning_rate, flip_sign) for a constant rate
scale_by_learning_rate(learning_rate, flip_sign) ==
  LET m == IF flip_sign THEN 0 - 1 ELSE 1
  IN scale(<< m * learning_rate[1], learning_rate[2] >>)

\* kitchen_sink(['polyak_hb'], [{'decay': d}], learning_rate): the chain of
\* the element and of the scaling by the negated learning rate.
kitchen_sink(element_hps, learning_rate) ==
  << polyak_hb(element_hps.decay),
     scale_by_learning_rate(learning_rate, TRUE) >>

\* init of one transformation of a chain
transform_init(tx, tree) ==
  IF tx.transform = "trace"
    THEN [trace |-> tree_map(LAMBDA p : FxInt(0), tree)]
    ELSE EmptyDict

\* update of one transformation of a chain: the updates it hands on and
\* its new state
transform_update(tx, updates, state) ==
  IF tx.transform = "trace"
    THEN LET f(g, t) == FxAdd(g, FxTimes(t, tx.decay))
             new_trace == tree_multimap(f, updates, state.trace)
         IN [updates |-> IF tx.nesterov
                           THEN tree_multimap(f, updates, new_trace)
                           ELSE new_trace,
             state |-> [trace |-> new_trace]]
    ELSE [updates |-> tree_map(LAMBDA g : FxTimes(g, tx.step_size), updates),
          state |-> state]

\* optax.chain(*tx).init(params)
chain_init(chain, tree) ==
  [n \in DOMAIN chain |-> transform_init(chain[n], tree)]

\* optax.chain(*tx).update(updates, state): every transformation in turn
RECURSIVE chain_update(_, _, _, _)
chain_update(chain, updates, state, n) ==
  IF n > Len(chain) THEN [updates |-> updates, state |-> state]
  ELSE LET r == transform_update(chain[n], updates, state[n])
       IN chain_update(chain, r.updates,
                       [state EXCEPT ![n] = r.state], n + 1)

\* optax.apply_updates(params, updates) on decimals
optax_apply_updates(tree, updates) == tree_multimap(FxAdd, tree, updates)

\* params['w'].dot(x)
dot(w, x) ==
  LET RECURSIVE partial(_)
      partial(i) == IF i = 0 THEN FxInt(0)
                    ELSE FxAdd(partial(i - 1), FxScale(w[i], x[i]))
  IN partial(Len(w))

\* jax.grad(compute_loss)(params, x, y) for
\* compute_loss = optax.l2_loss(params['w'].dot(x), y) = 0.5 * (w.x - y)^2
grad_compute_loss(tree, x, y) ==
  [w |-> [i \in DOMAIN tree.w |->
            FxScale(FxSub(dot(tree.w, x), FxInt(y)), x[i])]]

\* The constants of _optimizer_loop.
iterations == 5
loop_params == [w |-> << FxInt(1), FxInt(1) >>]
loop_x == << 5, 6 >>
loop_y == 4

\* The optimizers the loop is run with.
Decays == { << n, 10 >> : n \in 0 .. MaxDecayTenths }
StepSizes == { << 1, 100 >>, << 2, 100 >> }

HbIdle ==
  /\ hb_hps = EmptyDict
  /\ hb_params = EmptyDict
  /\ hb_opt_state = << >>
  /\ hb_results = << >>
  /\ hb_states = << >>
  /\ hb_pc = "idle"

\* optimizer = kitchen_sink(...); the first lines of _optimizer_loop
HbInit ==
  /\ hb_hps \in [decay : Decays, learning_rate : StepSizes]
  /\ hb_params = loop_params
  /\ hb_opt_state = chain_init(kitchen_sink(hb_hps, hb_hps.learning_rate),
                               loop_params)
  /\ hb_results = << >>
  /\ hb_states = << >>
  /\ hb_pc = "loop"

\* One iteration of the loop of _optimizer_loop.
OptimizerLoopIteration ==
  /\ hb_pc = "loop"
  /\ Len(hb_results) < iterations
  /\ LET optimizer == kitchen_sink(hb_hps, hb_hps.learning_rate)
         grads == grad_compute_loss(hb_params, loop_x, loop_y)
         r == chain_update(optimizer, grads, hb_opt_state, 1)
         new_params == optax_apply_updates(hb_params, r.updates)
     IN /\ hb_opt_state' = r.state
        /\ hb_params' = new_params
        /\ hb_results' = Append(hb_results, new_params)
        /\ hb_states' = Append(hb_states, r.state)
  /\ UNCHANGED << hb_hps, hb_pc >>
  /\ UNCHANGED << train_vars, ev_vars, gm_vars, ax_vars, lib_vars, tx_vars, go_vars, ad_vars, am_vars >>

\* return results
OptimizerLoopReturn ==
  /\ hb_pc = "loop"
  /\ Len(hb_results) = iterations
  /\ hb_pc' = "returned"
  /\ UNCHANGED << hb_hps, hb_params, hb_opt_state, hb_results, hb_states >>
  /\ UNCHANGED << train_vars, ev_vars, gm_vars, ax_vars, lib_vars, tx_vars, go_vars, ad_vars, am_vars >>

TxIdle == tx_call = EmptyDict /\ tx_state = EmptyDict /\ tx_pc = "idle"

(***************************************************************************)
(* optimizer_lib/transform.py: init_fn of the gradient transformations     *)
(* that keep accumulators.  An array is its shape and its elements in row  *)
(* order; a tree is a dict of arrays.                                      *)
(***************************************************************************)
RECURSIVE Size(_)
Size(shape) == IF shape = << >> THEN 1 ELSE Head(shape) * Size(Tail(shape))

\* jnp.zeros(shape)
jnp_zeros(shape) ==
  [shape |-> shape, data |-> [i \in 1 .. Size(shape) |-> Exact(0)]]

\* jnp.zeros_like(x)
jnp_zeros_like(x) == jnp_zeros(x.shape)

\* jnp.full_like(x, fill_value)
jnp_full_like_Zeros(x, fill_value) == jnp_zeros(x.shape)
jnp_full_like(x, fill_value) ==
  [shape |-> x.shape, data |-> [i \in DOMAIN x.data |-> fill_value]]

\* jax.tree_map(f, tree) over the arrays of a tree
leaf_map(f(_), tree) == [k \in DOMAIN tree |-> f(tree[k])]

\* jnp.zeros([], jnp.int32)
zero_count == 0

PreconditionBySecondMomentCoordinateWiseState(count, nu) ==
  [class |-> "PreconditionBySecondMomentCoordinateWiseState",
   count |-> count, nu |-> nu]
ScaleByAMSGradState(mu, nu) ==
  [class |-> "ScaleByAMSGradState", mu |-> mu, nu |-> nu]
ScaleByAdamState(count, mu, nu) ==
  [class |-> "ScaleByAdamState", count |-> count, mu |-> mu, nu |-> nu]
PreconditionByLayeredAdaptiveRMSState(count, nu, beta_array, scale_array) ==
  [class |-> "PreconditionByLayeredAdaptiveRMSState", count |-> count,
   nu |-> nu, beta_array |-> beta_array, scale_array |-> scale_array]
FactoredState(count, v_row, v_col, v) ==
  [class |-> "FactoredState", count |-> count, v_row |-> v_row,
   v_col |-> v_col, v |-> v]
Polyak_AveragingState(ema) == [class |-> "Polyak_AveragingState", ema |-> ema]

\* precondition_by_rms(...).init_fn
precondition_by_rms_init_fn(tree) ==
  PreconditionBySecondMomentCoordinateWiseState(
    zero_count, leaf_map(jnp_zeros_like, tree))

\* precondition_by_yogi(initial_accumulator_value=...).init_fn
precondition_by_yogi_init_fn(tree, initial_accumulator_value) ==
  LET value_like(p) == jnp_full_like(p, initial_accumulator_value)
      nu == leaf_map(value_like, tree)
  IN PreconditionBySecondMomentCoordinateWiseState(zero_count, nu)

\* precondition_by_amsgrad(...).init_fn
precondition_by_amsgrad_init_fn(tree) ==
  PreconditionBySecondMomentCoordinateWiseState(
    zero_count, leaf_map(jnp_zeros_like, tree))

\* scale_by_amsgrad(...).init_fn
scale_by_amsgrad_init_fn(tree) ==
  LET mu == leaf_map(jnp_zeros_like, tree)
      nu == leaf_map(jnp_zeros_like, tree)
  IN ScaleByAMSGradState(mu, nu)

\* scale_by_adam(...).init_fn
scale_by_adam_init_fn(tree) ==
  LET mu == leaf_map(jnp_zeros_like, tree)
      nu == leaf_map(jnp_zeros_like, tree)
  IN ScaleByAdamState(zero_count, mu, nu)

\* scale_by_nadam(...).init_fn
scale_by_nadam_init_fn(tree) ==
  LET mu == leaf_map(jnp_zeros_like, tree)
      nu == leaf_map(jnp_zeros_like, tree)
  IN ScaleByAdamState(zero_count, mu, nu)

\* The sum of the first n elements of a sequence of integers.
RECURSIVE PrefixSum(_, _)
PrefixSum(s, n) == IF n = 0 THEN 0 ELSE s[n] + PrefixSum(s, n - 1)

\* _generate_partition(decays, decay_distribution, length): decays[i]
\* repeated floor(decay_distribution[i] * length) times, the last one as
\* often as it takes to fill the length.
_generate_partition(decays, decay_distribution, length) ==
  LET floors == [i \in DOMAIN decay_distribution |->
                   (decay_distribution[i][1] * length)
                     \div decay_distribution[i][2]]
      last == Len(floors)
      multiples == [floors EXCEPT
                      ![last] = floors[last] + length
                                  - PrefixSum(floors, last)]
  IN [j \in 1 .. length |->
        decays[CHOOSE i \in DOMAIN multiples :
                 /\ PrefixSum(multiples, i - 1) < j
                 /\ j <= PrefixSum(multiples, i)]]

\* _generate_per_parameter_array(arr, params)
_generate_per_parameter_array(arr, decay_distribution, modality, p) ==
  LET ndim == Len(p.shape)
      input_index == Max(ndim - 2, 0)
      output_index == ndim - 1
      target_index == IF modality = "output" THEN output_index
                      ELSE input_index
      array_len == p.shape[target_index + 1]
      full_array == _generate_partition(arr, decay_distribution, array_len)
      new_shape == [d \in 1 .. ndim |->
                      IF d = target_index + 1 THEN array_len ELSE 1]
  IN [shape |-> new_shape, data |-> full_array]

\* precondition_by_layered_adaptive_rms(decays, scales, decay_distribution,
\* modality).init_fn
precondition_by_layered_adaptive_rms_init_fn(tree, h) ==
  LET count == zero_count
      nu == leaf_map(jnp_zeros_like, tree)
      beta(x) == _generate_per_parameter_array(
                   h.decays, h.decay_distribution, h.modality, x)
      scales(x) == _generate_per_parameter_array(
                     h.scales, h.decay_distribution, h.modality, x)
  IN PreconditionByLayeredAdaptiveRMSState(
       count, nu, leaf_map(beta, tree), leaf_map(scales, tree))

\* np.argsort(shape), as axes counted from 0
argsort(shape) ==
  LET n == Len(shape)
  IN CHOOSE order \in [1 .. n -> 0 .. n - 1] :
       /\ \A i, j \in 1 .. n : i # j => order[i] # order[j]
       /\ \A i, j \in 1 .. n :
            i < j => \/ shape[order[i] + 1] < shape[order[j] + 1]
                     \/ /\ shape[order[i] + 1] = shape[order[j] + 1]
                        /\ order[i] < order[j]

\* _factored_dims(shape, factored, min_dim_size_to_factor): None or the two
\* largest axes
_factored_dims(shape, factored, min_dim_size_to_factor) ==
  IF ~factored \/ Len(shape) < 2 THEN NoDict
  ELSE LET sorted_dims == argsort(shape)
           n == Len(shape)
       IN IF shape[sorted_dims[n - 1] + 1] < min_dim_size_to_factor
          THEN NoDict
          ELSE Some(<< sorted_dims[n - 1], sorted_dims[n] >>)

\* np.delete(shape, axis)
np_delete(shape, axis) ==
  [d \in 1 .. Len(shape) - 1 |->
     IF d <= axis THEN shape[d] ELSE shape[d + 1]]

\* scale_by_factored_rms(factored_dims=...).init_fn
scale_by_factored_rms_init_fn(tree, factored_dims) ==
  LET _init(k) ==
        LET param == tree[k]
            param_factored_dims == factored_dims[k]
        IN IF ~IsNone(param_factored_dims)
           THEN LET d1 == TheDict(param_factored_dims)[1]
                    d0 == TheDict(param_factored_dims)[2]
                IN [update |-> jnp_zeros(<< 1 >>),
                    v_row |-> jnp_zeros(np_delete(param.shape, d0)),
                    v_col |-> jnp_zeros(np_delete(param.shape, d1)),
                    v |-> jnp_zeros(<< 1 >>)]
           ELSE [update |-> jnp_zeros(<< 1 >>),
                 v_row |-> jnp_zeros(<< 1 >>),
                 v_col |-> jnp_zeros(<< 1 >>),
                 v |-> jnp_zeros(param.shape)]
      result_tree == [k \in DOMAIN tree |-> _init(k)]
  IN FactoredState(zero_count,
                   [k \in DOMAIN tree |-> result_tree[k].v_row],
                   [k \in DOMAIN tree |-> result_tree[k].v_col],
                   [k \in DOMAIN tree |-> result_tree[k].v])

\* polyak_averaging(...).init_fn
polyak_averaging_init_fn(tree) ==
  Polyak_AveragingState(leaf_map(jnp_zeros_like, tree))

\* init of the transformation a call names
transformation_init(call) ==
  CASE call.transformation = "precondition_by_rms" ->
         precondition_by_rms_init_fn(call.params)
    [] call.transformation = "precondition_by_yogi" ->
         precondition_by_yogi_init_fn(call.params,
                                      call.hps.initial_accumulator_value)
    [] call.transformation = "precondition_by_amsgrad" ->
         precondition_by_amsgrad_init_fn(call.params)
    [] call.transformation = "scale_by_amsgrad" ->
         scale_by_amsgrad_init_fn(call.params)
    [] call.transformation = "scale_by_adam" ->
         scale_by_adam_init_fn(call.params)
    [] call.transformation = "scale_by_nadam" ->
         scale_by_nadam_init_fn(call.params)
    [] call.transformation = "precondition_by_layered_adaptive_rms" ->
         precondition_by_layered_adaptive_rms_init_fn(call.params, call.hps)
    [] call.transformation = "scale_by_factored_rms" ->
         scale_by_factored_rms_init_fn(call.params, call.hps.factored_dims)
    [] call.transformation = "polyak_averaging" ->
         polyak_averaging_init_fn(call.params)

\* The params the transformations are initialised for: one array, or a
\* weight array and a bias vector.
Shapes ==
  { << n >> : n \in 1 .. MaxDim } \cup
  { << n, m >> : n \in 1 .. MaxDim, m \in 1 .. MaxDim }
ParamArray(shape) ==
  [shape |-> shape, data |-> [i \in 1 .. Size(shape) |-> Exact(1)]]
ParamTrees ==
  { [k \in {"w"} |-> ParamArray(s)] : s \in Shapes } \cup
  { [k \in {"w", "b"} |->
       IF k = "w" THEN ParamArray(s) ELSE ParamArray(<< n >>)] :
    s \in Shapes, n \in 1 .. MaxDim }

PlainTransformations ==
  { "precondition_by_rms", "precondition_by_amsgrad", "scale_by_amsgrad",
    "scale_by_adam", "scale_by_nadam", "polyak_averaging" }

\* initial_accumulator_value of precondition_by_yogi: the default 1e-6 and
\* another positive value
InitialAccumulatorValues == { << 1, 1000000 >>, << 3, 10 >> }

LayeredHps ==
  [decays : { << << 9, 10 >>, << 99, 100 >> >> },
   scales : { << Exact(1), Exact(2) >> },
   decay_distribution : { << << 1, 2 >>, << 1, 2 >> >> },
   modality : {"output", "input"}]

TransformCalls ==
  { [transformation |-> t, params |-> p, hps |-> EmptyDict] :
      t \in PlainTransformations, p \in ParamTrees } \cup
  { [transformation |-> "precondition_by_yogi", params |-> p,
     hps |-> [initial_accumulator_value |-> v]] :
      p \in ParamTrees, v \in InitialAccumulatorValues } \cup
  { [transformation |-> "precondition_by_layered_adaptive_rms",
     params |-> p, hps |-> h] : p \in ParamTrees, h \in LayeredHps } \cup
  { [transformation |-> "scale_by_factored_rms", params |-> p,
     hps |-> [factored_dims |->
                [k \in DOMAIN p |-> _factored_dims(p[k].shape, f, m)]]] :
      p \in ParamTrees, f \in BOOLEAN, m \in {2, 3} }

TxInit ==
  /\ tx_call \in TransformCalls
  /\ tx_state = EmptyDict
  /\ tx_pc = "built"

\* state = transformation.init(params)
TransformInit ==
  /\ tx_pc = "built"
  /\ tx_state' = transformation_init(tx_call)
  /\ tx_pc' = "initialised"
  /\ UNCHANGED tx_call
  /\ UNCHANGED << train_vars, ev_vars, gm_vars, ax_vars, lib_vars, hb_vars, go_vars, ad_vars, am_vars >>

(***************************************************************************)
(* optimizers.py: get_optimizer.                                           *)
(***************************************************************************)
\* Mutant: the default is returned whether or not the key is present.
dict_get_Default(d, key, default) == default

\* d.get(key, default)
dict_get(d, key, default) == IF key \in DOMAIN d THEN d[key] ELSE default

\* optax.inject_hyperparams(inner)(**hyperparams): the (init, update) pair
\* of the wrapped transformation.
inject_hyperparams(inner, hyperparams) ==
  << [fn |-> "init", transform |-> inner, hyperparams |-> hyperparams],
     [fn |-> "update", transform |-> inner, hyperparams |-> hyperparams] >>

\* _wrap_update_fn(opt_name, opt_update)
_wrap_update_fn(opt_name, opt_update) ==
  [fn |-> "update_fn", opt_name |-> opt_name, opt_update |-> opt_update]

\* The keys of opt_hparams that the branch of an optimizer subscripts.
SubscriptedKeys(optimizer) ==
  IF optimizer \in {"momentum", "nesterov"} THEN {"momentum"}
  ELSE IF optimizer = "adam" THEN {"beta1", "beta2", "epsilon"}
  ELSE {}

\* get_optimizer(hps, model=None); hparams.l2_decay_factor and model are
\* options, None being << >>.
get_optimizer(hparams, model) ==
  LET weight_decay == dict_get(hparams.opt_hparams, "weight_decay", Exact(0))
      opt_hparams == hparams.opt_hparams
      pair ==
        IF hparams.optimizer = "sgd"
        THEN inject_hyperparams("sgd",
               [learning_rate |-> Exact(0), weight_decay |-> weight_decay])
        ELSE IF hparams.optimizer \in {"momentum", "nesterov"}
        THEN inject_hyperparams("sgd",
               [learning_rate |-> Exact(0), weight_decay |-> weight_decay,
                momentum |-> opt_hparams["momentum"],
                nesterov |-> (hparams.optimizer = "nesterov")])
        ELSE IF hparams.optimizer = "adam"
        THEN inject_hyperparams("adamw",
               [learning_rate |-> Exact(0), b1 |-> opt_hparams["beta1"],
                b2 |-> opt_hparams["beta2"], eps |-> opt_hparams["epsilon"],
                weight_decay |-> weight_decay])
        ELSE inject_hyperparams("hessian_free",
               [flax_module_def |-> TheDict(model).flax_module_def,
                loss_fn |-> TheDict(model).loss_fn,
                learning_rate |-> Exact(0),
                max_iter |-> hparams.output_shape])
  IN IF ~(IsNone(hparams.l2_decay_factor) \/ weight_decay = Exact(0))
     THEN [kind |-> "raise", error |-> "AssertionError"]
     ELSE IF ~(SubscriptedKeys(hparams.optimizer) \subseteq DOMAIN opt_hparams)
     THEN [kind |-> "raise", error |-> "KeyError"]
     ELSE IF hparams.optimizer = "hessian_free" /\ IsNone(model)
     THEN [kind |-> "raise", error |-> "ValueError"]
     ELSE IF hparams.optimizer \notin
               {"sgd", "momentum", "nesterov", "adam", "hessian_free"}
     THEN [kind |-> "raise", error |-> "NotImplementedError"]
     ELSE [kind |-> "return", error |-> None,
           value |-> << pair[1],
                        _wrap_update_fn(hparams.optimizer, pair[2]) >>]

\* The names get_optimizer is called with: the implemented ones, one spelt
\* with a capital, and two that are not implemented.
OptimizerNames ==
  {"sgd", "momentum", "nesterov", "adam", "hessian_free",
   "Adam", "adagrad", "samuel"}
OptHparams ==
  { EmptyDict,
    [weight_decay |-> Exact(0)],
    [momentum |-> << 9, 10 >>],
    [momentum |-> << 9, 10 >>, weight_decay |-> << 1, 100 >>],
    [beta1 |-> << 9, 10 >>, beta2 |-> << 99, 100 >>],
    [beta1 |-> << 9, 10 >>, beta2 |-> << 99, 100 >>,
     epsilon |-> << 1, 1000 >>],
    [beta1 |-> << 9, 10 >>, beta2 |-> << 99, 100 >>,
     epsilon |-> << 1, 1000 >>, momentum |-> << 1, 2 >>,
     weight_decay |-> << 1, 100 >>] }
L2DecayFactors == {NoDict, Some(<< 1, 1000 >>)}
Models == {NoDict, Some([flax_module_def |-> "module", loss_fn |-> "loss"])}

GoIdle ==
  go_hps = EmptyDict /\ go_model = NoDict /\ go_result = EmptyDict
  /\ go_pc = "idle"

GoInit ==
  /\ \E optimizer \in OptimizerNames, opt_hparams \in OptHparams,
        l2_decay_factor \in L2DecayFactors :
       go_hps = [optimizer |-> optimizer, opt_hparams |-> opt_hparams,
                 l2_decay_factor |-> l2_decay_factor, output_shape |-> 10]
  /\ go_model \in Models
  /\ go_result = EmptyDict
  /\ go_pc = "call"

\* optimizer_init_fn, optimizer_update_fn = get_optimizer(hps, model)
GetOptimizerCall ==
  /\ go_pc = "call"
  /\ go_result' = get_optimizer(go_hps, go_model)
  /\ go_pc' = "done"
  /\ UNCHANGED << go_hps, go_model >>
  /\ UNCHANGED << train_vars, ev_vars, gm_vars, ax_vars, lib_vars, hb_vars, tx_vars, ad_vars, am_vars >>

(***************************************************************************)
(* transform.py: the updates of scale_by_adam and scale_by_amsgrad.        *)
(* Numbers are exact fractions << numerator, denominator >>; a quotient     *)
(* m / (sqrt(v + eps_root) + eps) is kept as the record of m, v + eps_root  *)
(* and eps, zero being the quotient of every zero m.                        *)
(***************************************************************************)
FracLcm(a, b) == (a \div GCD(a, b)) * b
\* x + y, x / y and x <= y, over the least common denominator.
FracSum(x, y) ==
  LET common == FracLcm(x[2], y[2])
  IN Frac(x[1] * (common \div x[2]) + y[1] * (common \div y[2]), common)
FracQuotient(x, y) == Frac(x[1] * y[2], x[2] * y[1])
FracLeq(x, y) ==
  LET common == FracLcm(x[2], y[2])
  IN x[1] * (common \div x[2]) <= y[1] * (common \div y[2])

\* jnp.power(x, n) for a whole n >= 0
RECURSIVE jnp_power(_, _)
jnp_power(x, n) == IF n = 0 THEN Exact(1) ELSE FracMul(x, jnp_power(x, n - 1))

\* jnp.maximum(x, y)
jnp_maximum(x, y) == IF FracLeq(x, y) THEN y ELSE x

\* jax.tree_map and jax.tree_multimap over the elements of the arrays of
\* trees of one structure.
array_tree_map(f(_), a) ==
  [k \in DOMAIN a |->
     [shape |-> a[k].shape,
      data |-> [i \in DOMAIN a[k].data |-> f(a[k].data[i])]]]
array_tree_multimap(f(_, _), a, b) ==
  [k \in DOMAIN a |->
     [shape |-> a[k].shape,
      data |-> [i \in DOMAIN a[k].data |-> f(a[k].data[i], b[k].data[i])]]]

\* _update_moment(updates, moments, decay, order)
_update_moment(updates, moments, decay, order) ==
  array_tree_multimap(
    LAMBDA g, t : FracSum(FracMul(FracSub(Exact(1), decay),
                                  jnp_power(g, order)),
                          FracMul(decay, t)),
    updates, moments)

\* _bias_correction(moment, decay, count)
_bias_correction(moment, decay, count) ==
  LET beta == FracSub(Exact(1), jnp_power(decay, count))
  IN array_tree_map(LAMBDA t : FracQuotient(t, beta), moment)

\* Mutant: the exponents are one step ahead.
_bias_corrected_decay_OneAhead(decay, count) ==
  LET t == count + 2
  IN FracQuotient(FracMul(decay, FracSub(Exact(1), jnp_power(decay, t - 1))),
                  FracSub(Exact(1), jnp_power(decay, t)))

\* _bias_corrected_decay(decay, count)
_bias_corrected_decay(decay, count) ==
  LET t == count + 1
  IN FracQuotient(FracMul(decay, FracSub(Exact(1), jnp_power(decay, t - 1))),
                  FracSub(Exact(1), jnp_power(decay, t)))

\* lambda m, v: m / (jnp.sqrt(v + eps_root) + eps)
rescale(m, v, eps_root, eps) ==
  IF m = Exact(0) THEN [m |-> Exact(0), under_root |-> Exact(0), eps |-> eps]
  ELSE [m |-> m, under_root |-> FracSum(v, eps_root), eps |-> eps]

\* The defaults of scale_by_adam and scale_by_amsgrad.
default_b1 == << 9, 10 >>
default_b2 == << 999, 1000 >>
default_eps == << 1, 100000000 >>
default_eps_root == Exact(0)

\* scale_by_adam(b1, b2, eps, eps_root, debias,
\*               use_decay_bias_correction).update_fn(updates, state)
scale_by_adam_update_fn(h, updates, state) ==
  IF h.use_decay_bias_correction /\ h.debias
  THEN [kind |-> "raise", error |-> "ValueError"]
  ELSE
    LET b1_hat == IF h.use_decay_bias_correction
                  THEN _bias_corrected_decay(h.b1, state.count) ELSE h.b1
        b2_hat == IF h.use_decay_bias_correction
                  THEN _bias_corrected_decay(h.b2, state.count) ELSE h.b2
        mu == _update_moment(updates, state.mu, b1_hat, 1)
        nu == _update_moment(updates, state.nu, b2_hat, 2)
        count == state.count + 1
        mu_hat == IF ~h.debias THEN mu ELSE _bias_correction(mu, h.b1, count)
        nu_hat == IF ~h.debias THEN nu ELSE _bias_correction(nu, h.b2, count)
    IN [kind |-> "return", error |-> None,
        updates |-> array_tree_multimap(
                      LAMBDA m, v : rescale(m, v, h.eps_root, h.eps),
                      mu_hat, nu_hat),
        state |-> ScaleByAdamState(count, mu, nu)]

\* scale_by_amsgrad(b1, b2, eps, eps_root).update_fn(updates, state)
scale_by_amsgrad_update_fn(h, updates, state) ==
  LET mu == _update_moment(updates, state.mu, h.b1, 1)
      nu == _update_moment(updates, state.nu, h.b2, 2)
      nu_hat == array_tree_multimap(jnp_maximum, nu, state.nu)
  IN [updates |-> array_tree_multimap(
                    LAMBDA m, v : rescale(m, v, h.eps_root, h.eps),
                    mu, nu_hat),
      state |-> ScaleByAMSGradState(mu, nu)]

\* test_transform.py, AMSGradTest: `_, state = adam.update(updates, state,
\* params)` with adam = optax.scale_by_adam(): the state optax's Adam goes
\* to, its updates being dropped.
optax_adam_update_state(updates, state) ==
  ScaleByAdamState(state.count + 1,
                   _update_moment(updates, state.mu, default_b1, 1),
                   _update_moment(updates, state.nu, default_b2, 2))

\* test_transform.py, AMSGradTest: update_fn of amsgrad()
true_amsgrad_update_fn(updates, state) ==
  LET prev_nu == state.nu
      adam_state == optax_adam_update_state(updates, state)
      curr_nu == adam_state.nu
      nu_hat == array_tree_multimap(jnp_maximum, curr_nu, prev_nu)
  IN [updates |-> array_tree_multimap(
                    LAMBDA m, v : rescale(m, v, Exact(0), default_eps),
                    adam_state.mu, nu_hat),
      state |-> ScaleByAdamState(adam_state.count, adam_state.mu, nu_hat)]

\* The params of the runs, as in test_transform.py: {'w': [1, 1]}.
RunParams == [k \in {"w"} |-> ParamArray(<< 2 >>)]
GradientTree(g) == [k \in {"w"} |-> [shape |-> << 2 >>, data |-> g]]

\* scale_by_adam twice on one gradient sequence: with the decay bias
\* correction and without debias, and with debias alone.
AdamDecays == {<< 1, 2 >>, << 2, 3 >>, << 3, 4 >>}
AdamGradients ==
  {GradientTree(<< Exact(1), Exact(0 - 2) >>),
   GradientTree(<< Exact(0), Exact(3) >>),
   GradientTree(<< Exact(0 - 1), Exact(1) >>)}
DecayCorrected(h) ==
  [b1 |-> h.b1, b2 |-> h.b2, eps |-> default_eps,
   eps_root |-> default_eps_root, debias |-> FALSE,
   use_decay_bias_correction |-> TRUE]
Debiased(h) ==
  [b1 |-> h.b1, b2 |-> h.b2, eps |-> default_eps,
   eps_root |-> default_eps_root, debias |-> TRUE,
   use_decay_bias_correction |-> FALSE]

AdIdle ==
  /\ ad_hps = EmptyDict /\ ad_grads = << >>
  /\ ad_decay_state = EmptyDict /\ ad_debias_state = EmptyDict
  /\ ad_decay_updates = EmptyDict /\ ad_debias_updates = EmptyDict
  /\ ad_pc = "idle"

AdInit ==
  /\ \E b1 \in AdamDecays, b2 \in AdamDecays : ad_hps = [b1 |-> b1, b2 |-> b2]
  /\ ad_grads = << >>
  /\ ad_decay_state = scale_by_adam_init_fn(RunParams)
  /\ ad_debias_state = scale_by_adam_init_fn(RunParams)
  /\ ad_decay_updates = EmptyDict
  /\ ad_debias_updates = EmptyDict
  /\ ad_pc = "run"

\* One update of both transformations with the same gradient.
AdamUpdate ==
  /\ ad_pc = "run"
  /\ Len(ad_grads) < MaxUpdates
  /\ \E g \in AdamGradients :
       LET corrected == scale_by_adam_update_fn(DecayCorrected(ad_hps), g,
                                                ad_decay_state)
           debiased == scale_by_adam_update_fn(Debiased(ad_hps), g,
                                               ad_debias_state)
       IN /\ ad_grads' = Append(ad_grads, g)
          /\ ad_decay_state' = corrected.state
          /\ ad_decay_updates' = corrected.updates
          /\ ad_debias_state' = debiased.state
          /\ ad_debias_updates' = debiased.updates
  /\ UNCHANGED << ad_hps, ad_pc >>
  /\ UNCHANGED << train_vars, ev_vars, gm_vars, ax_vars, lib_vars, hb_vars, tx_vars, go_vars, am_vars >>

\* scale_by_amsgrad with its defaults and the amsgrad() of the test on one
\* gradient sequence.
AmsgradGradients ==
  {GradientTree(<< Exact(0), Exact(0) >>),
   GradientTree(<< Exact(1), Exact(0) >>),
   GradientTree(<< Exact(0 - 1), Exact(2) >>),
   GradientTree(<< Exact(2), Exact(1) >>),
   GradientTree(<< Exact(0), Exact(0 - 1) >>)}
AmsgradDefaults ==
  [b1 |-> default_b1, b2 |-> default_b2, eps |-> default_eps,
   eps_root |-> default_eps_root]

AmIdle ==
  /\ am_grads = << >> /\ am_state = EmptyDict /\ am_true_state = EmptyDict
  /\ am_updates = EmptyDict /\ am_true_updates = EmptyDict /\ am_pc = "idle"

AmInit ==
  /\ am_grads = << >>
  /\ am_state = scale_by_amsgrad_init_fn(RunParams)
  /\ am_true_state = scale_by_adam_init_fn(RunParams)
  /\ am_updates = EmptyDict
  /\ am_true_updates = EmptyDict
  /\ am_pc = "run"

\* One update of both with the same gradient.
AmsgradUpdate ==
  /\ am_pc = "run"
  /\ Len(am_grads) < MaxAmsgradSteps
  /\ \E g \in AmsgradGradients :
       LET result == scale_by_amsgrad_update_fn(AmsgradDefaults, g, am_state)
           target == true_amsgrad_update_fn(g, am_true_state)
       IN /\ am_grads' = Append(am_grads, g)
          /\ am_state' = result.state
          /\ am_updates' = result.updates
          /\ am_true_state' = target.state
          /\ am_true_updates' = target.updates
  /\ UNCHANGED am_pc
  /\ UNCHANGED << train_vars, ev_vars, gm_vars, ax_vars, lib_vars, hb_vars, tx_vars, go_vars, ad_vars >>

OptIdle == HbIdle /\ TxIdle /\ GoIdle /\ AdIdle /\ AmIdle
LibIdle == InjIdle /\ UpIdle /\ TgIdle

Init == TrainInit /\ EvIdle /\ GmIdle /\ AxIdle /\ LibIdle /\ OptIdle

Next ==
  \/ TrainStep
  \/ Evaluate
  \/ AfterYield
  \/ FinalEvaluate
  \/ AfterFinalYield
  \/ ReturnAfterLoop

Spec == Init /\ [][Next]_vars

\* eval_metrics on its own.
InitEval == TrainIdle /\ EvInit /\ GmIdle /\ AxIdle /\ LibIdle /\ OptIdle
NextEval == EvalMetricsCall
SpecEval == InitEval /\ [][NextEval]_vars

\* gather_multihost_report on its own.
InitGather == TrainIdle /\ EvIdle /\ GmInit /\ AxIdle /\ LibIdle /\ OptIdle
NextGather == GatherCall
SpecGather == InitGather /\ [][NextGather]_vars

\* _inject_learning_rate on its own.
InitInject ==
  TrainIdle /\ EvIdle /\ GmIdle /\ AxIdle /\ InjInit /\ UpIdle /\ TgIdle
  /\ OptIdle
NextInject == InjectCall
SpecInject == InitInject /\ [][NextInject]_vars

\* update on its own.
InitUpdate ==
  TrainIdle /\ EvIdle /\ GmIdle /\ AxIdle /\ InjIdle /\ UpInit /\ TgIdle
  /\ OptIdle
NextUpdate == UpdateCall
SpecUpdate == InitUpdate /\ [][NextUpdate]_vars

\* A TrainingMetricsGrabber on its own.
InitGrabber ==
  TrainIdle /\ EvIdle /\ GmIdle /\ AxIdle /\ InjIdle /\ UpIdle /\ TgInit
  /\ OptIdle
NextGrabber ==
  \/ GrabberCreate
  \/ GrabberUpdate
  \/ GrabberRestoreState
  \/ GrabberRestoreCheckpoint
SpecGrabber == InitGrabber /\ [][NextGrabber]_vars

\* _optimizer_loop on its own.
InitLoop ==
  TrainIdle /\ EvIdle /\ GmIdle /\ AxIdle /\ LibIdle /\ HbInit /\ TxIdle /\ GoIdle
  /\ AdIdle /\ AmIdle
NextLoop == OptimizerLoopIteration \/ OptimizerLoopReturn
SpecLoop == InitLoop /\ [][NextLoop]_vars

\* init of a gradient transformation on its own.
InitTransform ==
  TrainIdle /\ EvIdle /\ GmIdle /\ AxIdle /\ LibIdle /\ HbIdle /\ TxInit /\ GoIdle
  /\ AdIdle /\ AmIdle
NextTransform == TransformInit
SpecTransform == InitTransform /\ [][NextTransform]_vars

\* get_optimizer on its own.
InitOptimizers ==
  TrainIdle /\ EvIdle /\ GmIdle /\ AxIdle /\ LibIdle /\ HbIdle /\ TxIdle
  /\ GoInit /\ AdIdle /\ AmIdle
NextOptimizers == GetOptimizerCall
SpecOptimizers == InitOptimizers /\ [][NextOptimizers]_vars

\* scale_by_adam in its two configurations.
InitAdam ==
  TrainIdle /\ EvIdle /\ GmIdle /\ AxIdle /\ LibIdle /\ HbIdle /\ TxIdle
  /\ GoIdle /\ AdInit /\ AmIdle
NextAdam == AdamUpdate
SpecAdam == InitAdam /\ [][NextAdam]_vars

\* scale_by_amsgrad next to the amsgrad() of its test.
InitAmsgrad ==
  TrainIdle /\ EvIdle /\ GmIdle /\ AxIdle /\ LibIdle /\ HbIdle /\ TxIdle
  /\ GoIdle /\ AdIdle /\ AmInit
NextAmsgrad == AmsgradUpdate
SpecAmsgrad == InitAmsgrad /\ [][NextAmsgrad]_vars

\* _get_axis_index_groups and the collective on their own.
InitGroups == TrainIdle /\ EvIdle /\ GmIdle /\ AxInit /\ LibIdle /\ OptIdle
NextGroups == GetAxisIndexGroups \/ CollectivePmean
SpecGroups == InitGroups /\ [][NextGroups]_vars

(***************************************************************************)
(* Properties of train().                                                  *)
(***************************************************************************)
Returned == pc \in {"completed", "stopped_early"}
StepsRun == Len(step_log)
\* g matches the evaluation cadence of the run.
MatchesCadence(g) ==
  IF args.cadence.eval_steps # {} THEN g \in args.cadence.eval_steps
  ELSE g % args.cadence.eval_frequency = 0
ReportsAt(g) == {i \in DOMAIN report_log : report_log[i].global_step = g}
LoopReportsAt(g) == {i \in ReportsAt(g) : ~report_log[i].final}
FinalReports == {i \in DOMAIN report_log : report_log[i].final}
ReportStepsIncrease ==
  \A i, j \in DOMAIN report_log :
    i < j => report_log[i].global_step < report_log[j].global_step
EvalsAt(g) == {i \in DOMAIN eval_log : eval_log[i] = g}
SavesAt(dir, g) ==
  {i \in DOMAIN saves : saves[i].dir = dir /\ saves[i].global_step = g}
\* The step whose evaluation decision is still to be carried out.
EvaluationPending(g) == g = global_step /\ pc = "eval"
RestoredStep ==
  IF IsNone(args.latest_checkpoint) THEN 0
  ELSE TheDict(args.latest_checkpoint).global_step

\* C1: global_step starts at the restored step (0 for a fresh run) and is
\* changed only by the per-batch increment: it always equals the start step
\* plus the number of step transitions run, the transitions were given the
\* consecutive steps start_step, start_step + 1, ..., and a run that
\* completes (no early stop, no failure) has run exactly
\* num_train_steps - start_step transitions and has global_step =
\* num_train_steps.
C1_GlobalStepCountsTransitions ==
  /\ start_step = RestoredStep
  /\ global_step = start_step + StepsRun
  /\ \A i \in DOMAIN step_log : step_log[i].step = start_step + i - 1
  /\ pc = "completed" =>
       /\ StepsRun = args.num_train_steps - start_step
       /\ global_step = args.num_train_steps

C1_Witness ==
  /\ pc = "completed"
  /\ is_restored
  /\ start_step = 1
  /\ StepsRun = 2
  /\ global_step = 3

\* C2 (as stated): in a run that does not fail, after the step that raises
\* global_step to g a report is yielded if and only if g matches the
\* evaluation cadence; there is exactly one report per evaluation point, the
\* reports' global_step values increase strictly and the starting step gets
\* no report.
C2_ReportIffCadence ==
  pc # "raised" =>
    /\ \A g \in (start_step + 1)..global_step :
         ~EvaluationPending(g) =>
           /\ Cardinality(ReportsAt(g)) <= 1
           /\ Cardinality(ReportsAt(g)) = 1 <=> MatchesCadence(g)
    /\ ReportStepsIncrease
    /\ ReportsAt(start_step) = {}

\* C2 (amended): inside the loop a report is yielded for g if and only if g
\* matches the cadence and the evaluation at g does not raise; the only
\* other report is the final forced one, which carries num_train_steps and
\* comes only when num_train_steps does not match the cadence; no step has
\* two reports, the reports' steps increase strictly and the starting step
\* gets no report.
C2_LoopReportIffCadence ==
  /\ \A g \in (start_step + 1)..global_step :
       ~EvaluationPending(g) =>
         /\ Cardinality(ReportsAt(g)) <= 1
         /\ Cardinality(LoopReportsAt(g)) = 1 <=>
              (MatchesCadence(g) /\ ~(pc = "raised" /\ g = global_step))
  /\ \A i \in FinalReports :
       /\ report_log[i].global_step = args.num_train_steps
       /\ ~MatchesCadence(args.num_train_steps)
       /\ i = Len(report_log)
  /\ ReportStepsIncrease
  /\ ReportsAt(start_step) = {}

C2_Witness ==
  /\ pc = "completed"
  /\ args.cadence.eval_steps = {}
  /\ args.cadence.eval_frequency = 2
  /\ start_step = 0
  /\ global_step = 3
  /\ Len(report_log) = 2
  /\ ~report_log[1].final /\ report_log[1].global_step = 2
  /\ report_log[2].final /\ report_log[2].global_step = 3

\* C3 (as stated): a run that executes at least one step and completes
\* without early stopping ends with a report carrying num_train_steps; if
\* the last step was no evaluation step exactly one evaluation, one report
\* and one checkpoint are produced after the loop, and if it was one the
\* step has no second report.
C3_FinalReportAndCheckpoint ==
  (pc = "completed" /\ StepsRun >= 1) =>
    /\ report_log # << >>
    /\ report_log[Len(report_log)].global_step = args.num_train_steps
    /\ IF MatchesCadence(args.num_train_steps)
       THEN /\ Cardinality(ReportsAt(args.num_train_steps)) = 1
            /\ FinalReports = {}
       ELSE /\ Cardinality(EvalsAt(args.num_train_steps)) = 1
            /\ Cardinality(FinalReports) = 1
            /\ Cardinality(SavesAt("train_dir", args.num_train_steps)) = 1

\* C3 (amended): as C3, but the checkpoint after the loop is produced on
\* process 0 only; the other processes produce the evaluation and the report
\* and save nothing.
C3_FinalReportAndCheckpointOnProcessZero ==
  (pc = "completed" /\ StepsRun >= 1) =>
    /\ report_log # << >>
    /\ report_log[Len(report_log)].global_step = args.num_train_steps
    /\ IF MatchesCadence(args.num_train_steps)
       THEN /\ Cardinality(ReportsAt(args.num_train_steps)) = 1
            /\ FinalReports = {}
       ELSE /\ Cardinality(EvalsAt(args.num_train_steps)) = 1
            /\ Cardinality(FinalReports) = 1
            /\ Cardinality(SavesAt("train_dir", args.num_train_steps)) =
                 IF args.process_index = 0 THEN 1 ELSE 0

C3_Witness ==
  /\ pc = "completed"
  /\ StepsRun = 3
  /\ ~MatchesCadence(args.num_train_steps)
  /\ args.process_index = 0
  /\ Cardinality(FinalReports) = 1
  /\ Cardinality(SavesAt("train_dir", args.num_train_steps)) = 1

\* The early-stopping condition of the run on a report.
EarlyStopCondition(rep) ==
  /\ args.early_stopping.target_name # None
  /\ args.early_stopping.target_name \in DOMAIN rep
  /\ \/ /\ args.early_stopping.mode = "above"
        /\ rep[args.early_stopping.target_name] >=
             args.early_stopping.target_value
     \/ /\ args.early_stopping.mode = "below"
        /\ rep[args.early_stopping.target_name] <=
             args.early_stopping.target_value

NothingMoreHappens ==
  /\ global_step' = global_step
  /\ step_log' = step_log
  /\ report_log' = report_log
  /\ eval_log' = eval_log

\* C4: when the report just yielded has the early-stopping target key with
\* a value that meets the target (>= for 'above', <= for 'below'), train()
\* returns at once: no step transition, no change of global_step, no report
\* and no evaluation follow, and nothing happens after the return; when the
\* key is absent or the comparison fails, the loop goes on with the next
\* batch.
C4_EarlyStopping ==
  [][ /\ (pc = "yielded" /\ EarlyStopCondition(report)) =>
           (pc' = "stopped_early" /\ NothingMoreHappens)
      /\ (pc = "yielded" /\ ~EarlyStopCondition(report)) =>
           (pc' = "loop" /\ train_iter' = train_iter /\ NothingMoreHappens)
      /\ pc = "final_yielded" => (pc' = "completed" /\ NothingMoreHappens)
      /\ pc # "stopped_early"
    ]_vars

C4_Witness ==
  /\ pc = "stopped_early"
  /\ args.early_stopping.mode = "below"
  /\ EarlyStopCondition(report)
  /\ train_iter > 0
  /\ global_step < args.num_train_steps

\* C5 (as stated): on every normal return of train(), after exhausting the
\* steps and after stopping early alike, wait_for_checkpoint_save was called
\* exactly once, after the last save was issued, so no save is unawaited.
C5_WaitOnEveryReturn ==
  Returned => (wait_calls = 1 /\ pending_save = 0)

\* C6: after a restore of a checkpoint of step S the transitions are given
\* S, S + 1, ..., a run that completes has run num_train_steps - S of them,
\* the preemption counter is the restored one plus one and the dataset is
\* built with the data seed folded with S, which differs from the seed of a
\* fresh run; without a restore the seed is the unfolded one and the counter
\* stays 0.
FreshDataSeed == << "rng", "split0", "split1" >>
C6_ResumeFromCheckpoint ==
  IF ~IsNone(args.latest_checkpoint)
  THEN LET ckpt == TheDict(args.latest_checkpoint) IN
       /\ is_restored
       /\ \A i \in DOMAIN step_log : step_log[i].step = ckpt.global_step + i - 1
       /\ pc = "completed" =>
            StepsRun = args.num_train_steps - ckpt.global_step
       /\ preemption_count = ckpt.preemption_count + 1
       /\ dataset_seed =
            Append(FreshDataSeed, "fold_in:" \o ToString(ckpt.global_step))
       /\ dataset_seed # FreshDataSeed
  ELSE /\ ~is_restored
       /\ dataset_seed = FreshDataSeed
       /\ preemption_count = 0

C6_Witness ==
  /\ is_restored
  /\ start_step = 2
  /\ StepsRun = 1
  /\ step_log[1].step = 2
  /\ preemption_count = 1
  /\ pc = "completed"

\* Some batch of the dataset has a NaN metric, so the merged metric is NaN.
DatasetHasNaN(ds) ==
  \E split \in DOMAIN ds : \E i \in DOMAIN ds[split] :
    \E key \in DOMAIN ds[split][i] : ds[split][i][key] = NaN

\* C7: an evaluation whose merged metrics contain a NaN raises
\* TrainingDivergedError, and only such an evaluation does; the error leaves
\* the generator: that evaluation point has no report and no checkpoint, and
\* nothing runs afterwards.
C7_NaNDiverges ==
  /\ DatasetHasNaN(eval_input) =>
       (pc = "raised" /\ error = "TrainingDivergedError")
  /\ (pc = "raised" /\ error = "TrainingDivergedError") =>
       /\ DatasetHasNaN(eval_input)
       /\ ReportsAt(global_step) = {}
       /\ SavesAt("train_dir", global_step) = {}
       /\ ~ENABLED Next

C7_Witness ==
  /\ pc = "raised"
  /\ error = "TrainingDivergedError"
  /\ DatasetHasNaN(eval_input)
  /\ StepsRun = 2
  /\ train_iter > 0
  /\ Len(report_log) = 1

(***************************************************************************)
(* Properties of eval_metrics, gather_multihost_report and                 *)
(* _get_axis_index_groups.                                                 *)
(***************************************************************************)
RECURSIVE BatchSum(_, _, _)
BatchSum(batch_iter, m, n) ==
  IF n = 0 THEN 0 ELSE batch_iter[n][m] + BatchSum(batch_iter, m, n - 1)

SplitsWithData(ds) == {split \in DOMAIN ds : Len(ds[split]) >= 1}

\* C8: eval_metrics returns a flat dict whose keys are exactly split/m for
\* the splits that yield at least one batch and the metrics m computed for
\* them, each with the split's aggregated value; a split without batches
\* makes evaluate return None and adds no key.
C8_EvalMetricsKeys ==
  (ev_pc = "done" /\ ~DatasetHasNaN(ev_dataset)) =>
    /\ ev_result.kind = "return"
    /\ DOMAIN ev_result.value =
         {split \o "/" \o m :
            split \in SplitsWithData(ev_dataset), m \in {"loss", "error_rate"}}
    /\ \A split \in SplitsWithData(ev_dataset) :
         \A m \in DOMAIN ev_dataset[split][1] :
           ev_result.value[split \o "/" \o m] =
             BatchSum(ev_dataset[split], m, Len(ev_dataset[split]))
    /\ \A split \in DOMAIN ev_dataset \ SplitsWithData(ev_dataset) :
         /\ IsNone(evaluate(ev_dataset[split]).value)
         /\ \A m \in {"loss", "error_rate"} :
              (split \o "/" \o m) \notin DOMAIN ev_result.value

C8_Witness ==
  /\ ev_pc = "done"
  /\ ev_result.kind = "return"
  /\ ev_dataset["train"] = << >>
  /\ Len(ev_dataset["valid"]) = 2
  /\ Len(ev_dataset["test"]) = 1
  /\ DOMAIN ev_result.value =
       {"valid/loss", "valid/error_rate", "test/loss", "test/error_rate"}
  /\ ev_result.value["valid/loss"] = 2

\* C9: for every metric m of the report and every host i the result maps
\* 'm-i' to host i's value of m and m to the value of the host whose index
\* is current_expert; it has no other keys.
C9_GatherMultihostReport ==
  (gm_pc = "done" /\ gm_expert \in DOMAIN gm_reports) =>
    LET metrics == DOMAIN gm_reports[0]
        hosts == DOMAIN gm_reports
    IN /\ gm_result.kind = "return"
       /\ DOMAIN gm_result.value =
            metrics \cup {m \o "-" \o ToString(i) : m \in metrics, i \in hosts}
       /\ \A m \in metrics :
            /\ \A i \in hosts :
                 gm_result.value[m \o "-" \o ToString(i)] = gm_reports[i][m]
            /\ gm_result.value[m] = gm_reports[gm_expert][m]
            /\ gm_result.value[m] =
                 gm_result.value[m \o "-" \o ToString(gm_expert)]

C9_Witness ==
  /\ gm_pc = "done"
  /\ gm_result.kind = "return"
  /\ DOMAIN gm_reports = 0..2
  /\ gm_expert = 2
  /\ DOMAIN gm_reports[0] = {"train/loss", "valid/loss"}
  /\ gm_reports[0]["valid/loss"] = 0
  /\ gm_reports[1]["valid/loss"] = 0
  /\ gm_reports[2]["valid/loss"] = 1
  /\ gm_result.value["valid/loss"] = 1

\* The places (g, k) of the groups that hold the device index dev.
PlacesOf(dev) ==
  {<< g, k >> \in (DOMAIN ax_groups) \X (1..ax_num_d) :
     k \in DOMAIN ax_groups[g] /\ ax_groups[g][k] = dev}

\* C10: _get_axis_index_groups returns num_p groups, group i being the num_d
\* consecutive indices i*num_d .. i*num_d + num_d - 1; every device index
\* 0 .. num_d*num_p - 1 is in exactly one group, and a collective over the
\* groups combines on every device only values of devices of that device's
\* host.
C10_AxisIndexGroups ==
  (ax_pc \in {"groups", "reduced"}) =>
    /\ Len(ax_groups) = ax_num_p
    /\ \A g \in 1..ax_num_p :
         /\ Len(ax_groups[g]) = ax_num_d
         /\ \A k \in 1..ax_num_d :
              ax_groups[g][k] = (g - 1) * ax_num_d + (k - 1)
    /\ \A g \in DOMAIN ax_groups : \A k \in DOMAIN ax_groups[g] :
         ax_groups[g][k] \in AxDevices
    /\ \A dev \in AxDevices : Cardinality(PlacesOf(dev)) = 1
    /\ \A g \in DOMAIN ax_groups : \A j, k \in DOMAIN ax_groups[g] :
         ax_groups[g][j] \div ax_num_d = ax_groups[g][k] \div ax_num_d
    /\ ax_pc = "reduced" =>
         \A dev, src \in AxDevices :
           (ax_values[src] = 1 /\ ax_mean[dev][1] # 0) =>
             dev \div ax_num_d = src \div ax_num_d

C10_Witness ==
  /\ ax_pc = "reduced"
  /\ ax_num_d = 3
  /\ ax_num_p = 2
  /\ ax_groups = << << 0, 1, 2 >>, << 3, 4, 5 >> >>
  /\ ax_values[4] = 1
  /\ ax_mean[3] = << 1, 3 >>
  /\ ax_mean[2] = << 0, 3 >>

(***************************************************************************)
(* C11: which actions of train() move state from one host to another.     *)
(***************************************************************************)
OwnersKept ==
  /\ params'.owner = params.owner
  /\ optimizer_state'.owner = optimizer_state.owner

InjectReturned == inj_pc = "done" /\ inj_result.kind = "return"

\* C14 (as stated): after _inject_learning_rate(state, lr) returns, reading
\* the learning-rate slot of the state yields lr, for every state the
\* injector accepts.
C14_InjectedRateIsRead ==
  InjectReturned => LearningRateSlot(inj_result.state) = Some(inj_lr)

\* C14 (amended): the injector accepts exactly the states whose innermost
\* state is an InjectHyperparamsState; after it returns, a state that has a
\* 'learning_rate' hyperparameter (directly, or through any number of
\* GradientAccumulatorState wrappers) reads lr in that slot, and a state
\* without that hyperparameter is left as it was.
C14_InjectedRateIsReadWhereSlotExists ==
  inj_pc = "done" =>
    /\ inj_result.kind = "return"
         <=> InnermostState(inj_state).type = "InjectHyperparamsState"
    /\ inj_result.kind = "return" =>
         IF LearningRateSlot(inj_state) # NoDict
         THEN LearningRateSlot(inj_result.state) = Some(inj_lr)
         ELSE inj_result.state = inj_state

\* A rate injected through two wrappers into a slot that held another rate.
C14_Witness ==
  /\ InjectReturned
  /\ NestingDepth(inj_state) = 2
  /\ LearningRateSlot(inj_state) # NoDict
  /\ LearningRateSlot(inj_state) # Some(inj_lr)
  /\ LearningRateSlot(inj_result.state) = Some(inj_lr)

\* C15: _inject_learning_rate on a state that is neither an
\* InjectHyperparamsState nor a GradientAccumulatorState, at the top level or
\* as the innermost base_state, raises ValueError and leaves the state as it
\* was.
C15_UnsupportedStateRaises ==
  (inj_pc = "done"
     /\ InnermostState(inj_state).type # "InjectHyperparamsState")
    => /\ inj_result.kind = "raise"
       /\ inj_result.error = "ValueError"
       /\ inj_result.state = inj_state

\* An unsupported state met below a wrapper.
C15_Witness ==
  /\ inj_pc = "done"
  /\ NestingDepth(inj_state) >= 1
  /\ InnermostState(inj_state).type = "ScaleByAdamState"
  /\ inj_result.kind = "raise"

(***************************************************************************)
(* Properties of update().                                                 *)
(***************************************************************************)
UpdateReturned == up_pc = "done" /\ up_result.kind = "return"
AveragedNorm == sqrt(l2_regularization(up_args.averaged_grad, 0))

\* C12 (as stated): with a metrics accumulator configured and a clip
\* threshold set, update() calls the metrics update function with the
\* device-averaged gradient as it was before clipping, the params before the
\* step and the params after the step.
C12_MetricsGetUnclippedGradient ==
  (UpdateReturned /\ ~IsNone(up_args.metrics_state)
     /\ ClipApplies(up_args.grad_clip))
    => /\ ~IsNone(up_result.new_metrics_state)
       /\ TheDict(up_result.new_metrics_state) =
            [model_gradient |-> tree_map(Exact, up_args.averaged_grad),
             old_params |-> up_args.params,
             new_params |-> up_result.new_params]

\* C13 (as stated): for every threshold t >= 0 that is not None and averaged
\* gradient of norm g, the optimizer is handed the original gradient if
\* g <= t, and if g > t every number of it multiplied by t / (g + eps), a
\* tree whose norm g * t / (g + eps) is within eps of t; with no threshold
\* the gradient is handed on unchanged.
C13_GradientClipping ==
  UpdateReturned =>
    LET grad == up_args.averaged_grad
        g == AveragedNorm
    IN IF IsNone(up_args.grad_clip) \/ g <= TheDict(up_args.grad_clip)
       THEN up_result.optimizer_grad = tree_map(Exact, grad)
       ELSE LET t == TheDict(up_args.grad_clip)
                den == g * _GRAD_CLIP_EPS[2] + _GRAD_CLIP_EPS[1]
            IN /\ \A k \in DOMAIN grad : \A i \in DOMAIN grad[k] :
                    up_result.optimizer_grad[k][i] =
                      << grad[k][i] * t * _GRAD_CLIP_EPS[2], den >>
               /\ t * den - g * t * _GRAD_CLIP_EPS[2] >= 0
               /\ (t * den - g * t * _GRAD_CLIP_EPS[2]) * _GRAD_CLIP_EPS[2]
                    <= den * _GRAD_CLIP_EPS[1]

(***************************************************************************)
(* Properties of the TrainingMetricsGrabber.                               *)
(***************************************************************************)
RECURSIVE FracPow(_, _)
FracPow(x, n) == IF n = 0 THEN Exact(1) ELSE FracMul(x, FracPow(x, n - 1))

\* sum_{i = from}^{N-1} beta^i * values[N - i], for the N values given in
\* the order they were fed.
RECURSIVE DiscountedSum(_, _, _)
DiscountedSum(beta, values, from) ==
  IF from >= Len(values) THEN Exact(0)
  ELSE FracAdd(FracMul(FracPow(beta, from), values[Len(values) - from]),
               DiscountedSum(beta, values, from + 1))

ClosedFormEma(beta, values) ==
  FracMul(FracSub(Exact(1), beta), DiscountedSum(beta, values, 0))

\* The values fed to the four averages of element e of leaf k, step by step.
FedGradients(k, e) ==
  [j \in DOMAIN tg_history |-> tg_history[j].model_gradient[k][e]]
FedUpdates(k, e) ==
  [j \in DOMAIN tg_history |->
     FracSub(tg_history[j].new_params[k][e], tg_history[j].old_params[k][e])]
Squares(values) == [j \in DOMAIN values |-> FracMul(values[j], values[j])]

\* C16: after N updates of a grabber created with all averages zero, every
\* element of every leaf's grad_ema is (1-beta) * sum_i beta^i * g_{N-1-i},
\* and likewise grad_sq_ema, update_ema and update_sq_ema over the squared
\* gradients, the updates new_param - old_param and their squares.
C16_EmaClosedForm ==
  tg_pc \notin {"idle", "new", "raised"} =>
    \A k \in DOMAIN tg_grabber.state :
      \A e \in DOMAIN tg_params[k] :
        LET beta == tg_grabber.config.ema_beta
            leaf == tg_grabber.state[k]
        IN /\ leaf.grad_ema[e] = ClosedFormEma(beta, FedGradients(k, e))
           /\ leaf.grad_sq_ema[e] =
                ClosedFormEma(beta, Squares(FedGradients(k, e)))
           /\ leaf.update_ema[e] = ClosedFormEma(beta, FedUpdates(k, e))
           /\ leaf.update_sq_ema[e] =
                ClosedFormEma(beta, Squares(FedUpdates(k, e)))

\* Three updates with different gradients under beta = 3/4, two leaves.
C16_Witness ==
  /\ tg_pc = "live"
  /\ Len(tg_history) = 3
  /\ tg_grabber.config.ema_beta = << 3, 4 >>
  /\ DOMAIN tg_grabber.state = {"layer1", "layer2"}
  /\ tg_history[1].model_gradient # tg_history[3].model_gradient
  /\ tg_grabber.state["layer2"].grad_ema[2] # Exact(0)

\* C17 (as stated): restoring a template grabber of the same structure from
\* g.state_dict(), by a call of restore_state or by loading a checkpoint
\* the grabber was saved in, gives a grabber whose state equals g.state in
\* all five fields of every leaf.
C17_RestoreIsLossless ==
  tg_pc \in {"restored by call", "restored from checkpoint"} =>
    /\ tg_restored.kind = "return"
    /\ tg_restored.value.state = tg_grabber.state

(***************************************************************************)
(* Properties of polyak_hb under _optimizer_loop.                          *)
(***************************************************************************)
\* The reference trajectory, in millionths.
ReferenceTrajectory ==
  << << 650000, 580000 >>,
     << 268500, 122200 >>,
     << 97665, 0 - 82802 >>,
     << 178505, 14206 >>,
     << 386205, 263446 >> >>

ReferenceRun ==
  /\ hb_hps.decay = << 7, 10 >>
  /\ hb_hps.learning_rate = << 1, 100 >>

\* The parameters and the trace before iteration t.
ParamsBefore(t) == IF t = 1 THEN loop_params ELSE hb_results[t - 1]
TraceBefore(t) ==
  IF t = 1 THEN tree_map(LAMBDA p : FxInt(0), loop_params)
  ELSE hb_states[t - 1][1].trace

\* C18: heavy-ball momentum with decay d followed by the scaling with
\* -learning_rate computes, from a zero trace,
\* trace_t = g_t + d * trace_(t-1) and params_t = params_(t-1) - lr * trace_t;
\* with decay 0.7 and learning rate 0.01 the parameters after each of the
\* five iterations are within 10^-5 of the reference trajectory.
C18_HeavyBallTrajectory ==
  hb_pc # "idle" =>
    \A t \in 1 .. Len(hb_results) :
      LET g == grad_compute_loss(ParamsBefore(t), loop_x, loop_y)
          d == hb_hps.decay
          rate == hb_hps.learning_rate
          trace_t == hb_states[t][1].trace
      IN /\ trace_t =
              tree_multimap(LAMBDA a, b : FxAdd(a, FxTimes(b, d)),
                            g, TraceBefore(t))
         /\ hb_results[t] =
              tree_multimap(LAMBDA a, b : FxSub(a, FxTimes(b, rate)),
                            ParamsBefore(t), trace_t)
         /\ ReferenceRun =>
              \A i \in 1 .. 2 :
                FxClose(hb_results[t].w[i],
                        FxMicro(ReferenceTrajectory[t][i]))

\* The reference run has returned its five results, the third of them with
\* a negative second coordinate.
C18_Witness ==
  /\ hb_pc = "returned"
  /\ ReferenceRun
  /\ Len(hb_results) = 5
  /\ hb_results[3].w[2][1] < 0
  /\ FxClose(hb_results[5].w[1], FxMicro(386205))

(***************************************************************************)
(* Properties of the eval callbacks of train().                            *)
(***************************************************************************)
\* The keys of the metrics returned by the callbacks before callback i.
RECURSIVE EarlierKeys(_, _)
EarlierKeys(returned, i) ==
  IF i = 1 THEN {}
  ELSE DOMAIN returned[i - 1] \cup EarlierKeys(returned, i - 1)

\* Some callback returns a key of the assembled report or of an earlier
\* callback.
Collides(assembled_keys, returned) ==
  \E i \in DOMAIN returned :
    DOMAIN returned[i] \cap (assembled_keys \cup EarlierKeys(returned, i))
      # {}

\* The evaluation of the loop, for an evaluation that assembles its report:
\* a collision raises and neither yields nor saves, no collision yields a
\* report with every callback's metrics.
CallbackStep ==
  pc = "eval" =>
    LET assembled == EvalReport(eval_input', 0, TheDict(lr), grad_norm)
        returned == args.opt.callbacks
    IN assembled.kind = "return" =>
         IF Collides(DOMAIN assembled.value, returned)
         THEN /\ pc' = "raised"
              /\ error' = "ValueError"
              /\ report_log' = report_log
              /\ saves' = saves
         ELSE /\ pc' = "yielded"
              /\ \A i \in DOMAIN returned :
                   \A k \in DOMAIN returned[i] :
                     /\ k \in DOMAIN report'
                     /\ report'[k] = returned[i][k]

\* C19: at an evaluation point, if the metrics returned by a post-eval
\* callback share a key with the report assembled so far (evaluation
\* metrics, bookkeeping keys, keys of an earlier callback), train() fails
\* before the report is yielded and before the checkpoint of that
\* evaluation point is saved, and nothing runs afterwards; without a
\* collision every key returned by a callback is in the yielded report.
C19_CallbackCollisionIsFatal ==
  /\ [][CallbackStep]_vars
  /\ [](pc = "raised" /\ error = "ValueError" =>
          /\ ReportsAt(global_step) = {}
          /\ SavesAt("train_dir", global_step) = {}
          /\ ~ENABLED Next)

\* The second callback returned a key the first one had added: the run has
\* failed at its evaluation after two steps.
C19_Witness ==
  /\ pc = "raised"
  /\ error = "ValueError"
  /\ args.opt.callbacks = RepeatedKeyCallback
  /\ global_step = 2
  /\ StepsRun = 2

(***************************************************************************)
(* Properties of init of the gradient transformations.                     *)
(***************************************************************************)
\* The accumulator trees of a transformation's state.
Accumulators(state) ==
  CASE state.class = "PreconditionBySecondMomentCoordinateWiseState" ->
         << state.nu >>
    [] state.class = "ScaleByAMSGradState" -> << state.mu, state.nu >>
    [] state.class = "ScaleByAdamState" -> << state.mu, state.nu >>
    [] state.class = "PreconditionByLayeredAdaptiveRMSState" ->
         << state.nu >>
    [] state.class = "FactoredState" ->
         << state.v_row, state.v_col, state.v >>
    [] state.class = "Polyak_AveragingState" -> << state.ema >>

\* Every element of every leaf of an accumulator tree is v.
FilledWith(accumulator, v) ==
  \A k \in DOMAIN accumulator :
    \A i \in DOMAIN accumulator[k].data : accumulator[k].data[i] = v

OneLeafPerParamsLeaf(accumulator) == DOMAIN accumulator = DOMAIN tx_call.params

StepCountIsZero == "count" \in DOMAIN tx_state => tx_state.count = 0

\* C20 (as stated): init(params) of every transformation that keeps
\* accumulators returns accumulators of zeros, one leaf per params leaf,
\* and a step count of 0 where the state has one.
C20_InitGivesZeros ==
  tx_pc = "initialised" =>
    /\ \A n \in DOMAIN Accumulators(tx_state) :
         /\ OneLeafPerParamsLeaf(Accumulators(tx_state)[n])
         /\ FilledWith(Accumulators(tx_state)[n], Exact(0))
    /\ StepCountIsZero

\* C20 (amended): init(params) returns one accumulator leaf per params leaf
\* and a step count of 0 where the state has one; the accumulators are all
\* zeros, except that of precondition_by_yogi, which is filled with
\* initial_accumulator_value.
C20_InitGivesZerosOrInitialValue ==
  tx_pc = "initialised" =>
    /\ \A n \in DOMAIN Accumulators(tx_state) :
         /\ OneLeafPerParamsLeaf(Accumulators(tx_state)[n])
         /\ FilledWith(Accumulators(tx_state)[n],
                       IF tx_call.transformation = "precondition_by_yogi"
                       THEN tx_call.hps.initial_accumulator_value
                       ELSE Exact(0))
    /\ StepCountIsZero

\* precondition_by_yogi initialised with its default value for a weight
\* matrix and a bias vector.
C20_Witness ==
  /\ tx_pc = "initialised"
  /\ tx_call.transformation = "precondition_by_yogi"
  /\ tx_call.hps.initial_accumulator_value = << 1, 1000000 >>
  /\ DOMAIN tx_call.params = {"w", "b"}
  /\ Len(tx_call.params["w"].shape) = 2
  /\ tx_state.count = 0
  /\ tx_state.nu["w"].data[1] = << 1, 1000000 >>

(***************************************************************************)
(* Properties of the learning rate and the optimizer state of a step.      *)
(***************************************************************************)
\* The updates the optimizer state had received when train() started.
UpdatesAtStart == start_step

C22_CreateValidatesConfig ==
  tg_pc \notin {"idle", "new"} =>
    IF "ema_beta" \notin DOMAIN tg_config
    THEN /\ tg_created.kind = "raise"
         /\ tg_created.error = "ValueError"
         /\ "value" \notin DOMAIN tg_created
         /\ tg_grabber = EmptyDict
         /\ tg_pc = "raised"
    ELSE /\ tg_created.kind = "return"
         /\ tg_created.value.class = "TrainingMetricsGrabber"
         /\ tg_created.value.config = tg_config
         /\ DOMAIN tg_created.value.state = DOMAIN tg_params
         /\ \A k \in DOMAIN tg_params :
              /\ tg_created.value.state[k].class = "_MetricsLeafState"
              /\ DOMAIN tg_created.value.state[k].grad_ema =
                   DOMAIN tg_params[k]

\* create was called with a config that spells the key differently.
C22_Witness ==
  /\ tg_pc = "raised"
  /\ tg_config = [ema_decay |-> << 1, 2 >>]
  /\ DOMAIN tg_params = {"layer1", "layer2"}


(***************************************************************************)
(* Properties of get_optimizer.                                            *)
(***************************************************************************)
ImplementedNames == {"sgd", "momentum", "nesterov", "adam", "hessian_free"}

\* What get_optimizer reads for an implemented name is there: not both an
\* l2_decay_factor and a non-zero weight_decay, the keys of opt_hparams the
\* optimizer's branch subscripts, and a model for hessian_free.
InputsComplete ==
  /\ \/ IsNone(go_hps.l2_decay_factor)
     \/ "weight_decay" \notin DOMAIN go_hps.opt_hparams
     \/ go_hps.opt_hparams["weight_decay"] = Exact(0)
  /\ go_hps.optimizer \in {"momentum", "nesterov"} =>
       "momentum" \in DOMAIN go_hps.opt_hparams
  /\ go_hps.optimizer = "adam" =>
       {"beta1", "beta2", "epsilon"} \subseteq DOMAIN go_hps.opt_hparams
  /\ go_hps.optimizer = "hessian_free" => ~IsNone(go_model)

ReturnsPair ==
  /\ go_result.kind = "return"
  /\ Len(go_result.value) = 2
  /\ go_result.value[1].fn = "init"
  /\ go_result.value[2].fn = "update_fn"

RaisesError ==
  /\ go_result.kind = "raise"
  /\ go_result.error # None
  /\ "value" \notin DOMAIN go_result

\* C23 (as stated): get_optimizer raises an error and returns no pair
\* whenever hps.optimizer is not an implemented name, and returns an
\* (init, update) pair for every implemented name.
C23_PairForEveryImplementedName ==
  go_pc = "done" =>
    IF go_hps.optimizer \in ImplementedNames THEN ReturnsPair
    ELSE RaisesError

\* C23 (amended): get_optimizer raises an error and returns no pair whenever
\* hps.optimizer is not an implemented name; for an implemented name it
\* returns an (init, update) pair when the inputs its branch reads are
\* complete, and raises an error otherwise.
C23_PairForImplementedNameWithInputs ==
  go_pc = "done" =>
    IF go_hps.optimizer \in ImplementedNames /\ InputsComplete
    THEN ReturnsPair
    ELSE RaisesError

\* hessian_free was asked for without a model.
C23_Witness ==
  /\ go_pc = "done"
  /\ go_hps.optimizer = "hessian_free"
  /\ IsNone(go_model)
  /\ IsNone(go_hps.l2_decay_factor)
  /\ go_result.kind = "raise"
  /\ go_result.error = "ValueError"


(***************************************************************************)
(* Properties of the batch statistics at the evaluations of train().       *)
(***************************************************************************)
\* The devices of this host, and the sum of a statistic over them.
LocalDevices ==
  {dev \in TrainDevices :
     ProcessOfDevice(dev, local_device_count) = args.process_index}
LocalSum(values) == SumOver(values, LocalDevices)

\* An evaluation, periodic or final, was called in this step.
EvalMetricsCalled == eval_log' # eval_log

\* C24: every call of eval_metrics in train(), periodic or final, comes
\* right after the synchronisation of batch_stats and is given the
\* synchronised statistics: on each device of the host the mean over the
\* host's local devices of what the devices held before.  Only empty
\* batch_stats are passed on as they are.
C24_EvalUsesSyncedBatchStats ==
  [][EvalMetricsCalled =>
       /\ eval_stats' = batch_stats'
       /\ DOMAIN eval_stats' = DOMAIN batch_stats
       /\ \A k \in DOMAIN batch_stats :
            \A dev \in LocalDevices :
              eval_stats'[k][dev] * local_device_count =
                LocalSum(batch_stats[k])]_vars

\* On host 1 a periodic evaluation after the first step and the final one
\* after the second: the final one was given the mean of what the host's two
\* devices held after the second step.
C24_Witness ==
  /\ pc = "final_yielded"
  /\ args.process_index = 1
  /\ eval_log = << 1, 2 >>
  /\ start_step = 0
  /\ DOMAIN eval_stats = {"batch_norm"}
  /\ eval_stats["batch_norm"][2] = 15
  /\ eval_stats["batch_norm"][3] = 15


(***************************************************************************)
(* Properties of the checkpoint of an evaluation point.                    *)
(***************************************************************************)
\* The generator is resumed after the yield of a periodic evaluation, or of
\* the final one.
ResumedAfterYield == pc = "yielded" /\ pc' # "yielded"
ResumedAfterFinalYield == pc = "final_yielded" /\ pc' # "final_yielded"

\* The checkpoint of the state as it is when the generator is resumed.
CheckpointOfCurrentState ==
  [dir |-> "train_dir", params |-> params, global_step |-> global_step,
   preemption_count |-> preemption_count,
   sum_train_cost |-> sum_train_cost, max_to_keep |-> "default"]

\* The reports the consumer has resumed the generator after.
ConsumedReports ==
  IF pc \in {"yielded", "final_yielded"}
  THEN 1..(Len(report_log) - 1) ELSE DOMAIN report_log

\* C25: when the generator is resumed after the yield of an evaluation
\* point, process 0 submits to train_dir a checkpoint of the current state
\* with the global_step of the report; this happens before the
\* early-stopping check, so a run that has stopped early has the checkpoint
\* of its final state as its last one, and the cost accumulator is reset
\* only afterwards, the checkpoint holding the accumulator before the reset.
C25_CheckpointAfterYield ==
  /\ [][/\ (ResumedAfterYield \/ ResumedAfterFinalYield) /\
             args.process_index = 0 =>
               /\ saves' = Append(saves, CheckpointOfCurrentState)
               /\ saves'[Len(saves')].global_step = report.global_step
        /\ ResumedAfterYield =>
             /\ sum_train_cost' = 0
             /\ pc' \in {"loop", "eval", "stopped_early"}]_vars
  /\ [](args.process_index = 0 /\ pc # "idle" =>
          /\ \A i \in ConsumedReports :
               \E j \in DOMAIN saves :
                 /\ saves[j].dir = "train_dir"
                 /\ saves[j].global_step = report_log[i].global_step
          /\ pc = "stopped_early" =>
               /\ saves # << >>
               /\ saves[Len(saves)].dir = "train_dir"
               /\ saves[Len(saves)].global_step = global_step
               /\ saves[Len(saves)].params = params)

\* Process 0 stopped early at step 2 of a run with evaluations at steps 1
\* and 2: the last checkpoint is the one of step 2 and holds the cost of the
\* one step since the evaluation at step 1.
C25_Witness ==
  /\ pc = "stopped_early"
  /\ args.process_index = 0
  /\ report_log = << [global_step |-> 1, final |-> FALSE],
                     [global_step |-> 2, final |-> FALSE] >>
  /\ saves[Len(saves)].global_step = 2
  /\ saves[Len(saves)].sum_train_cost > 0
  /\ sum_train_cost = 0


(***************************************************************************)
(* Properties of the checkpoints of checkpoint_steps.                      *)
(***************************************************************************)
\* The saves into the 'checkpoints' directory that record step s.
SpecialSaves(s) ==
  {j \in DOMAIN saves :
     saves[j].dir = "checkpoints" /\ saves[j].global_step = s}

\* The run has ended, and the steps it has started a transition at.
RunEnded == pc \in {"completed", "stopped_early", "raised"}
StartedSteps == {step_log[i].step : i \in DOMAIN step_log}

\* A save of step s holds the state before the transition numbered s and is
\* never deleted.
SavedBeforeTransition(j) ==
  /\ saves[j].params.updates = saves[j].global_step
  /\ saves[j].max_to_keep = None

NothingDeleted ==
  [][/\ Len(saves') >= Len(saves)
     /\ SubSeq(saves', 1, Len(saves)) = saves]_vars

\* C26 (as stated): when the run has ended, process 0 has saved exactly one
\* checkpoint into 'checkpoints' for every s in checkpoint_steps with
\* start_step <= s <= num_train_steps that the run reached, recording
\* global_step = s and the state before the transition numbered s; nothing
\* is deleted, and the other processes save nothing.
C26_CheckpointAtEveryReachedStep ==
  /\ NothingDeleted
  /\ [](pc # "idle" =>
          /\ args.process_index # 0 => saves = << >>
          /\ args.process_index = 0 /\ RunEnded =>
               \A s \in args.opt.checkpoint_steps :
                 start_step <= s /\ s <= args.num_train_steps
                   /\ s <= global_step =>
                     /\ Cardinality(SpecialSaves(s)) = 1
                     /\ \A j \in SpecialSaves(s) : SavedBeforeTransition(j))

\* C26 (amended): process 0 has saved exactly one checkpoint into
\* 'checkpoints' for every s in checkpoint_steps at which the run has
\* started a step transition (start_step <= s < num_train_steps), recording
\* global_step = s and the state before that transition, and none for any
\* other step; nothing is deleted, and the other processes save nothing.
C26_CheckpointAtEveryStartedStep ==
  /\ NothingDeleted
  /\ [](pc # "idle" =>
          /\ args.process_index # 0 => saves = << >>
          /\ \A s \in StartedSteps :
               /\ start_step <= s
               /\ s < args.num_train_steps
          /\ args.process_index = 0 =>
               \A s \in 0..(MaxTrainSteps + 1) :
                 IF s \in args.opt.checkpoint_steps /\ s \in StartedSteps
                 THEN /\ Cardinality(SpecialSaves(s)) = 1
                      /\ \A j \in SpecialSaves(s) : SavedBeforeTransition(j)
                 ELSE SpecialSaves(s) = {})

\* Process 0 completed a run of two steps with checkpoint_steps {0, 2}:
\* step 0 was saved before its transition, step 2 was reached and not saved.
C26_Witness ==
  /\ pc = "completed"
  /\ args.process_index = 0
  /\ args.num_train_steps = 2
  /\ args.opt.checkpoint_steps = {0, 2}
  /\ start_step = 0
  /\ global_step = 2
  /\ Cardinality(SpecialSaves(0)) = 1
  /\ SpecialSaves(2) = {}


(***************************************************************************)
(* Properties of train_cost.                                               *)
(***************************************************************************)
\* The step the steps of the latest report are counted from: the step of the
\* report before it, or the step this invocation started at.
PreviousReportStep ==
  IF Len(report_log) > 1 THEN report_log[Len(report_log) - 1].global_step
  ELSE start_step

\* The steps executed since then, and the sum of their costs.
StepsSinceReport ==
  {i \in DOMAIN step_log : step_log[i].step >= PreviousReportStep}
CostSince == SumOver([i \in DOMAIN step_log |-> step_log[i].cost],
                     StepsSinceReport)

\* C27: the train_cost of a yielded report is the sum of the costs of the
\* steps executed since the previous report (since the start of this
\* invocation when there is none, a resumed one included) divided by the
\* number of those steps.
C27_TrainCostIsMeanSinceLastReport ==
  pc \in {"yielded", "final_yielded"} =>
    /\ StepsSinceReport # {}
    /\ report.train_cost[1] * Cardinality(StepsSinceReport) =
         CostSince * report.train_cost[2]


(***************************************************************************)
(* Properties of the re-init block of the loop.                            *)
(***************************************************************************)
\* A step transition at a step listed in opt_hparams.reinit_steps.
ReinitStep ==
  /\ pc = "loop" /\ train_iter > 0
  /\ global_step \in args.opt.reinit_steps
  /\ Len(step_log') = Len(step_log) + 1

\* The re-init steps the run has gone through, and the expert the latest of
\* them synced to.
ReinitEntries == {i \in DOMAIN step_log : ~IsNone(step_log[i].synced_to)}
LatestReinit == CHOOSE i \in ReinitEntries : \A j \in ReinitEntries : j <= i

AdamFed(k, i) == [j \in DOMAIN ad_grads |-> ad_grads[j][k].data[i]]
StandardMoment(decay, values) ==
  FracQuotient(ClosedFormEma(decay, values),
               FracSub(Exact(1), FracPow(decay, Len(values))))
AdamUpdated == ad_pc = "run" /\ Len(ad_grads) > 0
C29_DecayCorrectionIsDebias ==
  AdamUpdated =>
    /\ \A k \in DOMAIN RunParams : \A i \in DOMAIN RunParams[k].data :
         /\ ad_decay_state.mu[k].data[i]
              = StandardMoment(ad_hps.b1, AdamFed(k, i))
         /\ ad_decay_state.nu[k].data[i]
              = StandardMoment(ad_hps.b2, Squares(AdamFed(k, i)))
    /\ ad_decay_updates = ad_debias_updates

\* Three updates with different decays, the last gradient not zero in the
\* first element, so that the quotient of the update is not the zero one.
C29_Witness ==
  /\ AdamUpdated
  /\ Len(ad_grads) = 3
  /\ ad_hps.b1 # ad_hps.b2
  /\ ad_decay_updates["w"].data[1].m # Exact(0)
  /\ ad_decay_state.mu # ad_debias_state.mu


(***************************************************************************)
(* C30: on every gradient sequence scale_by_amsgrad with its defaults      *)
(* returns the updates of the amsgrad() of its test: the moments are the    *)
(* decay-EMAs of g and g^2, the second moment that scales and that is       *)
(* carried to the next step is the elementwise maximum of the new second    *)
(* moment and the carried one, and the update is mu / (sqrt(nu_hat) + eps). *)
(***************************************************************************)
AmsgradUpdated == am_pc = "run" /\ Len(am_grads) > 0
C30_AmsgradIsReferenceAmsgrad ==
  AmsgradUpdated => am_updates = am_true_updates

====
